---------------------------- MODULE Spec2Model ----------------------------
(***************************************************************************)
(* A model of the layered editing canvas of rigid_body_designer:           *)
(* src/grid.py, src/particle.py, src/model_canvas_layer.py and the         *)
(* TestCanvas layer stack of src/model_canvas.py.                          *)
(*                                                                         *)
(* Particle objects live in a heap so that sharing of one object between   *)
(* a Model and a DrawnParticle (or between two Models) is visible: `heap`  *)
(* maps every reference slot that currently holds a Particle to the value  *)
(* of that Particle, and `share` is the set of groups (two or more slots)  *)
(* that hold the very same object.                                         *)
(***************************************************************************)
EXTENDS Integers, Sequences, FiniteSets, TLC

VARIABLES heap, share, layers, dead, evq, idle, exc, calls, nextUid, clip, nInputs,
          sstart, soffset,
          default_brush, oval_id_to_particle, grid_coord_to_particle,
          model_particles, selected_particles, sized, raised, lastop,
          cell_diameter, grid_pixel, grid_gc, grid_coords, grid_padding,
          grid_box, grid_points, grid_op,
          rbd_kind, rbd_file, tool_particle_specs, tool_body_specs, models_list,
          import_raised,
          event_data, event_queue, event_got

\* the fields of the canvas Model of src/model.py
mvars == <<default_brush, oval_id_to_particle, grid_coord_to_particle,
           model_particles, selected_particles, sized, raised, lastop>>

\* the arguments and results of the calls to the SquareGrid of src/grid.py
gvars == <<cell_diameter, grid_pixel, grid_gc, grid_coords, grid_padding,
           grid_box, grid_points, grid_op>>

\* the application that import_rbd of src/rbd_io.py works on and its file
ivars == <<rbd_kind, rbd_file, tool_particle_specs, tool_body_specs, models_list,
           import_raised>>

\* the event data registry of src/utils.py, the virtual events that wait for
\* their handlers, and what the last handler retrieved
evars == <<event_data, event_queue, event_got>>

vars == <<heap, share, layers, dead, evq, idle, exc, calls, nextUid, clip, nInputs,
          sstart, soffset, mvars, gvars, ivars, evars>>

----------------------------------------------------------------------------
(* Bounds of the model *)

MaxX == 1
MaxLayers == 3
MaxInputs == 5
IdleCap == 2
MaxPix == 25

(* Program constants *)

Diameter == 20
DesignModel == 0
ClipModel == 90
NoModel == 99

Universe == (0 .. MaxX) \X {0}

NoP == [none |-> TRUE]
NoBrush == [erase |-> TRUE]
NoTag == "none"
NoExc == "ok"

Restrict(f, D) == [x \in D |-> f[x]]

----------------------------------------------------------------------------
(* src/grid.py : SquareGrid *)

\* int(a / d) for a float quotient: Python truncates toward zero
TruncDiv(a, d) == IF a >= 0 THEN a \div d ELSE -((-a) \div d)

\* the pixel of the centre of a cell instead of its corner
gridcoord_to_pixel_center(coord, d) ==
  <<coord[1] * d + d \div 2, coord[2] * d + d \div 2>>

gridcoord_to_pixel(coord, d) == <<coord[1] * d, coord[2] * d>>

pixel_to_gridcoord(pixel, d) == <<TruncDiv(pixel[1], d), TruncDiv(pixel[2], d)>>

SetMin(S) == CHOOSE x \in S : \A y \in S : x <= y
SetMax(S) == CHOOSE x \in S : \A y \in S : x >= y

\* a bounding box whose upper corner is the largest coordinate itself
calc_bbox_closed(gcs, padding) ==
  IF gcs = {} THEN <<>>
  ELSE <<SetMin({p[1] : p \in gcs}) - padding, SetMin({p[2] : p \in gcs}) - padding,
         SetMax({p[1] : p \in gcs}) + padding, SetMax({p[2] : p \in gcs}) + padding>>

\* None is modelled by the empty tuple
calc_bbox(gcs, padding) ==
  IF gcs = {} THEN <<>>
  ELSE <<SetMin({p[1] : p \in gcs}) - padding, SetMin({p[2] : p \in gcs}) - padding,
         SetMax({p[1] : p \in gcs}) + padding + 1,
         SetMax({p[2] : p \in gcs}) + padding + 1>>

gridcoord_in_bbox(gc, box) ==
  IF box = <<>> THEN FALSE
  ELSE box[1] <= gc[1] /\ gc[1] < box[3] /\ box[2] <= gc[2] /\ gc[2] < box[4]

gridcoord_to_pixel_bbox(box, d) ==
  IF box = <<>> THEN <<>>
  ELSE <<box[1] * d, box[2] * d, box[3] * d, box[4] * d>>

grid_points_iterator(box) == (box[1] .. (box[3] - 1)) \X (box[2] .. (box[4] - 1))

\* grid.rotate_gridcoords(points, center, steps): a quarter turn about center
\* for steps = 1, the opposite quarter turn for steps = -1
rotate_gridcoord(gc, c, steps) ==
  IF steps = 1 THEN <<c[1] + (gc[2] - c[2]), c[2] - (gc[1] - c[1])>>
  ELSE <<c[1] - (gc[2] - c[2]), c[2] + (gc[1] - c[1])>>

----------------------------------------------------------------------------
(* The heap of Particle objects *)

MSlot(m, gc) == <<m, "m", gc>>
DSlot(uid, kind, key) == <<uid, kind, key>>

BlockOf(s, sl) ==
  LET bs == {b \in s.share : sl \in b}
  IN IF bs = {} THEN {sl} ELSE CHOOSE b \in bs : TRUE

Unbind(s, sl) ==
  IF sl \notin DOMAIN s.heap THEN s
  ELSE [s EXCEPT !.heap = Restrict(s.heap, DOMAIN s.heap \ {sl}),
                 !.share = {b \in {c \ {sl} : c \in s.share} : Cardinality(b) >= 2}]

\* the slot refers to a newly created Particle of value v
BindFresh(s, sl, v) ==
  LET t == Unbind(s, sl) IN [t EXCEPT !.heap = (sl :> v) @@ t.heap]

\* the slot refers to the object that slot src refers to
BindAlias(s, sl, src) ==
  IF sl = src THEN s
  ELSE LET v == s.heap[src]
           t == Unbind(s, sl)
           blk == BlockOf(t, src)
       IN [t EXCEPT !.heap = (sl :> v) @@ t.heap,
                    !.share = (t.share \ {blk}) \cup {blk \cup {sl}}]

\* an attribute assignment on the object held by slot sl
Mutate(s, sl, v) ==
  LET blk == BlockOf(s, sl)
  IN [s EXCEPT !.heap = [x \in DOMAIN s.heap |-> IF x \in blk THEN v ELSE s.heap[x]]]

\* all slots of an owner disappear (the owner is garbage)
DropOwner(s, o) ==
  LET gone == {sl \in DOMAIN s.heap : sl[1] = o}
  IN [s EXCEPT !.heap = Restrict(s.heap, DOMAIN s.heap \ gone),
               !.share = {b \in {c \ gone : c \in s.share} : Cardinality(b) >= 2}]

----------------------------------------------------------------------------
(* Model: the sparse store  coordinate -> Particle *)

ModelOcc(s, m) == {sl[3] : sl \in {x \in DOMAIN s.heap : x[1] = m /\ x[2] = "m"}}

has_particle(s, m, gc) == MSlot(m, gc) \in DOMAIN s.heap

Tags(p) == [ps |-> p.ps, bs |-> p.bs]

\* the content of a model by value: occupied coordinates and their tags
ModelVal(s, m) == [gc \in ModelOcc(s, m) |-> Tags(s.heap[MSlot(m, gc)])]

remove_particle(s, m, gc) == Unbind(s, MSlot(m, gc))

add_particle(s, m, gc, ps, bs) ==
  IF has_particle(s, m, gc)
  THEN Mutate(s, MSlot(m, gc), [s.heap[MSlot(m, gc)] EXCEPT !.ps = ps, !.bs = bs,
                                                             !.pc = FALSE, !.bc = FALSE])
  ELSE BindFresh(s, MSlot(m, gc),
                 [gc |-> gc, ps |-> ps, bs |-> bs, pc |-> FALSE, bc |-> FALSE])

\* set(coord, particle): the model takes the given object, which then is the
\* particle of that coordinate
set_particle(s, m, gc, ref) ==
  BindAlias(Mutate(s, ref, [s.heap[ref] EXCEPT !.gc = gc]), MSlot(m, gc), ref)

RECURSIVE set_particles(_, _, _)
\* Model.particles = refs : every given object is stored under its coordinate
set_particles(s, m, refs) ==
  IF refs = {} THEN s
  ELSE LET r == CHOOSE x \in refs : TRUE
       IN set_particles(BindAlias(s, MSlot(m, s.heap[r].gc), r), m, refs \ {r})

----------------------------------------------------------------------------
(* Layers.  A layer is addressed by a handle: its index in the stack, or 0  *)
(* for the layer that was popped last.                                      *)

Ok(s) == s.exc = NoExc
Raise(s, e) == IF Ok(s) THEN [s EXCEPT !.exc = e] ELSE s

NoLayer == [uid |-> 0]

L(s, h) == IF h = 0 THEN s.dead ELSE s.layers[h]
SetL(s, h, r) == IF h = 0 THEN [s EXCEPT !.dead = r] ELSE [s EXCEPT !.layers[h] = r]

EditTypes == {"EditBackground", "EditBasic", "Paste", "Rotate"}

\* ModelCanvasLayer.__init__ .. MoveLayer.__init__ : the fields of a new layer
NewLayer(uid, type, model, points, startpos, steps) ==
  [uid |-> uid, type |-> type, model |-> model,
   points |-> points, initPoints |-> points,
   drawn |-> {}, dgc |-> <<>>, selected |-> {}, dirty |-> {},
   started |-> FALSE, paused |-> FALSE, finished |-> FALSE,
   canceled |-> FALSE, cleaned |-> FALSE,
   aliveBound |-> FALSE, runBound |-> FALSE,
   brush |-> NoBrush, hasClip |-> FALSE,
   startpos |-> startpos, offset |-> <<0, 0>>, duplicating |-> FALSE,
   steps |-> steps,
   snap |-> <<>>, psnap |-> <<>>]

alive(l) == l.started /\ ~l.finished /\ ~l.canceled
running(l) == alive(l) /\ ~l.paused

Log(s, what, uid) == IF ~Ok(s) THEN s ELSE [s EXCEPT !.calls = Append(@, <<what, uid>>)]

point_hidden(l, gc) == IF l.type = "EditBackground" THEN FALSE ELSE gc \notin l.points
point_drawn(l, gc) == gc \in l.drawn

particles_iterator(l) ==
  IF l.type = "Move"
  THEN {<<"d", k>> : k \in l.drawn} \cup {<<"s", k>> : k \in l.drawn}
  ELSE {<<"d", k>> : k \in l.drawn}
moving_particles_iterator(l) == {<<"d", k>> : k \in l.drawn}
stationary_particles_iterator(l) == {<<"s", k>> : k \in l.drawn}

\* DrawnParticle: gridcoord, the slot of its private Particle, in_model
dp_gridcoord(l, dp) == IF dp[1] = "d" THEN l.dgc[dp[2]] ELSE dp[2]
dp_slot(l, dp) == DSlot(l.uid, dp[1], dp[2])
dp_in_model(s, l, dp) == dp_slot(l, dp) \in DOMAIN s.heap

\* Particle.__deepcopy__: the copy refers to deep copies of the two tag
\* objects (pc, bc: the tag object is a copy, not the object it was given)
DeepCopy(v) == [v EXCEPT !.pc = TRUE, !.bc = TRUE]

\* DrawnParticle.model_particle = deepcopy(the object of slot ref), or None
dp_set_model_particle(s, sl, ref) ==
  IF ref \in DOMAIN s.heap THEN BindFresh(s, sl, DeepCopy(s.heap[ref])) ELSE Unbind(s, sl)

\* DrawnParticle.model_particle = deepcopy(value), or None
dp_set_value(s, sl, v) == IF v = NoP THEN Unbind(s, sl) ELSE BindFresh(s, sl, DeepCopy(v))

mark_dirty(s, h, dps) ==
  IF ~Ok(s) THEN s ELSE SetL(s, h, [L(s, h) EXCEPT !.dirty = @ \cup dps])

\* TestCanvas.update_layer: after_idle(layer.update)
update_layer(s, h) ==
  IF ~Ok(s) THEN s
  ELSE LET u == L(s, h).uid
       IN [s EXCEPT !.idle[u] = IF @ < IdleCap THEN @ + 1 ELSE @]

\* ViewLayer.add_particle_at and MoveLayer.add_particle_at
add_particle_at(s, h, gc) ==
  LET l == L(s, h) IN
  IF ~Ok(s) THEN s
  ELSE IF l.model = NoModel THEN Raise(s, "AttributeError")
  ELSE LET s1 == dp_set_model_particle(s, DSlot(l.uid, "d", gc), MSlot(l.model, gc))
           s2 == IF l.type = "Move" THEN Unbind(s1, DSlot(l.uid, "s", gc)) ELSE s1
           l2 == [l EXCEPT !.drawn = @ \cup {gc}, !.dgc = (gc :> gc) @@ @,
                           !.dirty = IF l.type = "Move"
                                     THEN @ \cup {<<"d", gc>>, <<"s", gc>>} ELSE @]
       IN SetL(s2, h, l2)

RECURSIVE add_each(_, _, _)
add_each(s, h, gcs) ==
  IF gcs = {} \/ ~Ok(s) THEN s
  ELSE LET gc == CHOOSE x \in gcs : TRUE
       IN add_each(add_particle_at(s, h, gc), h, gcs \ {gc})

\* ViewLayer.add_particles_at
add_particles_at(s, h, gcs) ==
  LET l == L(s, h)
      new == {gc \in gcs : ~point_drawn(l, gc) /\ ~point_hidden(l, gc)}
  IN IF ~Ok(s) THEN s
     ELSE mark_dirty(add_each(s, h, new), h, {<<"d", gc>> : gc \in new})

\* [self.get_particle_at(gc) for gc in gcs] : KeyError on an undrawn coordinate
get_particles_at(s, h, gcs) ==
  IF ~Ok(s) THEN s
  ELSE IF \A gc \in gcs : point_drawn(L(s, h), gc) THEN s ELSE Raise(s, "KeyError")

\* the selected setter marking the new selection instead of what changed
set_selected_mark_new(s, h, sel) ==
  IF ~Ok(s) THEN s
  ELSE LET l == L(s, h)
       IN SetL(s, h, [l EXCEPT !.dirty = @ \cup sel, !.selected = sel])

\* SelectLayer.selected setter
set_selected(s, h, sel) ==
  IF ~Ok(s) THEN s
  ELSE LET l == L(s, h)
           old == l.selected
       IN SetL(s, h, [l EXCEPT !.dirty = @ \cup ((old \ sel) \cup (sel \ old)),
                               !.selected = sel])

new_selection(s, h, dps, append) ==
  IF append THEN set_selected(s, h, L(s, h).selected \cup dps)
  ELSE set_selected(s, h, dps)

remove_selection(s, h, dps) == set_selected(s, h, L(s, h).selected \ dps)

particle_selected(l, dp) == dp \in l.selected
point_selected(l, gc) == point_drawn(l, gc) /\ particle_selected(l, <<"d", gc>>)

----------------------------------------------------------------------------
(* Lifecycle: ModelCanvasLayer / ViewLayer / SelectLayer *)

\* the layer classes that add handlers to running_event_handlers
\* (ViewLayer adds alive handlers only)
HasRunningHandlers(type) == type # "View"

\* start_event_handlers(list): asserts that the list is not bound yet
start_event_handlers(s, h, which) ==
  LET l == L(s, h) IN
  IF ~Ok(s) THEN s
  ELSE IF which = "alive"
       THEN IF l.aliveBound THEN Raise(s, "AssertionError")
            ELSE SetL(s, h, [l EXCEPT !.aliveBound = TRUE])
       ELSE IF ~HasRunningHandlers(l.type) THEN s
            ELSE IF l.runBound THEN Raise(s, "AssertionError")
            ELSE SetL(s, h, [l EXCEPT !.runBound = TRUE])

\* stop_event_handlers(list): unbinding a handler that has no funcid raises
stop_event_handlers(s, h, which) ==
  LET l == L(s, h) IN
  IF ~Ok(s) THEN s
  ELSE IF which = "alive"
       THEN IF ~l.aliveBound THEN Raise(s, "TypeError")
            ELSE SetL(s, h, [l EXCEPT !.aliveBound = FALSE])
       ELSE IF ~HasRunningHandlers(l.type) THEN s
            ELSE IF ~l.runBound THEN Raise(s, "TypeError")
            ELSE SetL(s, h, [l EXCEPT !.runBound = FALSE])

SetFlag(s, h, f) ==
  IF ~Ok(s) THEN s
  ELSE LET l == L(s, h)
       IN SetL(s, h,
            CASE f = "started" -> [l EXCEPT !.started = TRUE]
              [] f = "paused" -> [l EXCEPT !.paused = TRUE]
              [] f = "resumed" -> [l EXCEPT !.paused = FALSE]
              [] f = "finished" -> [l EXCEPT !.finished = TRUE]
              [] f = "canceled" -> [l EXCEPT !.canceled = TRUE]
              [] f = "cleaned" -> [l EXCEPT !.cleaned = TRUE])

base_start(s, h) ==
  SetFlag(start_event_handlers(start_event_handlers(Log(s, "start", L(s, h).uid),
                                                    h, "alive"), h, "running"),
          h, "started")

\* a pause() that unbinds the running handlers and forgets `_paused = True`
base_pause_unpaused(s, h) ==
  stop_event_handlers(Log(s, "pause", L(s, h).uid), h, "running")

base_pause(s, h) ==
  SetFlag(stop_event_handlers(Log(s, "pause", L(s, h).uid), h, "running"), h, "paused")

base_resume(s, h) ==
  SetFlag(start_event_handlers(Log(s, "resume", L(s, h).uid), h, "running"), h, "resumed")

\* a finish() that unbinds the running handlers only
base_finish_running_only(s, h) ==
  SetFlag(stop_event_handlers(Log(s, "finish", L(s, h).uid), h, "running"),
          h, "finished")

base_finish(s, h) ==
  SetFlag(stop_event_handlers(stop_event_handlers(Log(s, "finish", L(s, h).uid),
                                                  h, "alive"), h, "running"),
          h, "finished")

base_cancel(s, h) ==
  SetFlag(stop_event_handlers(stop_event_handlers(Log(s, "cancel", L(s, h).uid),
                                                  h, "alive"), h, "running"),
          h, "canceled")

AllDirty(s, h) == mark_dirty(s, h, particles_iterator(L(s, h)))

\* ViewLayer.start
view_start(s, h) ==
  LET pts == L(s, h).points
  IN update_layer(
       mark_dirty(
         get_particles_at(add_particles_at(base_start(s, h), h, pts), h, pts),
         h, {<<"d", gc>> : gc \in pts}),
       h)

\* SelectLayer.start
select_start(s, h) ==
  LET pts == L(s, h).points
  IN update_layer(
       new_selection(
         get_particles_at(add_particles_at(view_start(s, h), h, pts), h, pts),
         h, {<<"d", gc>> : gc \in pts}, FALSE),
       h)

\* ViewLayer.pause / resume / finish / cancel / clean
pause(s, h) == update_layer(AllDirty(base_pause(s, h), h), h)
resume(s, h) == update_layer(AllDirty(base_resume(s, h), h), h)
view_finish(s, h) == base_finish(s, h)
cancel(s, h) == base_cancel(s, h)
clean(s, h) == SetFlag(Log(s, "clean", L(s, h).uid), h, "cleaned")

----------------------------------------------------------------------------
(* Display: ViewLayer.update *)

RECURSIVE update_each(_, _, _)
\* ViewLayer.update_particle for every dirty particle:
\*   p.model_particle = self.model.get_particle(p.gridcoord)
update_each(s, h, dps) ==
  IF dps = {} THEN s
  ELSE LET dp == CHOOSE x \in dps : TRUE
           l == L(s, h)
           s1 == dp_set_model_particle(s, dp_slot(l, dp), MSlot(l.model, dp_gridcoord(l, dp)))
       IN update_each(s1, h, dps \ {dp})

\* ViewLayer.update_particles
update_particles(s, h) ==
  IF ~Ok(s) THEN s
  ELSE LET l == L(s, h)
       IN IF l.dirty # {} /\ l.model = NoModel THEN Raise(s, "AttributeError")
          ELSE SetL(update_each(s, h, l.dirty), h, [l EXCEPT !.dirty = {}])

\* update_view in mode 'scroll'; EditBackgroundLayer.update_view_scroll draws
\* every grid point of the scrollable region
update_view(s, h) ==
  LET l == L(s, h) IN
  IF ~Ok(s) \/ l.type # "EditBackground" THEN s
  ELSE IF l.model = NoModel THEN Raise(s, "AttributeError")
  ELSE add_particles_at(SetL(s, h, [l EXCEPT !.points = @ \cup Universe]), h,
                        l.points \cup Universe)

\* ViewLayer.update
update(s, h) == update_particles(update_view(Log(s, "update", L(s, h).uid), h), h)

----------------------------------------------------------------------------
(* Notifications *)

\* canvas.event_generate('<<Model>>', state = key, when = 'tail')
emit_model_event(s, m, gcs) ==
  IF ~Ok(s) THEN s
  ELSE [s EXCEPT !.evq = Append(@, [model |-> m, dirty |-> gcs])]

\* ViewLayer.handle_model_event
\* the drawn particles among the coordinates gcs become dirty
mark_drawn_dirty(s, h, gcs) ==
  mark_dirty(s, h, {<<"d", gc>> : gc \in {x \in gcs : point_drawn(L(s, h), x)}})

\* ViewLayer.handle_model_event
handle_model_event(s, h, ev) ==
  LET l == L(s, h) IN
  IF l.model # ev.model THEN s
  ELSE LET gone == {gc \in ev.dirty : ~has_particle(s, l.model, gc)}
           here == {gc \in ev.dirty : has_particle(s, l.model, gc)}
       IN update_layer(
            mark_drawn_dirty(
              add_particles_at(SetL(s, h, [l EXCEPT !.points = (@ \ gone) \cup here]),
                               h, ev.dirty),
              h, ev.dirty),
            h)

----------------------------------------------------------------------------
(* Editing: EditBasicLayer *)

RECURSIVE brush_each(_, _, _, _)
\* the loop of EditBasicLayer.apply_brush
brush_each(s, h, brush, dps) ==
  IF dps = {} \/ ~Ok(s) THEN s
  ELSE
    LET dp == CHOOSE x \in dps : TRUE
        l == L(s, h)
        gc == dp_gridcoord(l, dp)
        erase == brush = NoBrush
        modify == ~erase /\ (brush.ps = NoTag \/ brush.bs = NoTag)
        create == ~erase /\ ~modify
        msl == MSlot(l.model, gc)
        s1 ==
          IF erase THEN remove_particle(s, l.model, gc)
          ELSE IF dp_in_model(s, l, dp)
          THEN IF brush.ps = NoTag /\ brush.bs = NoTag THEN s
               ELSE IF ~has_particle(s, l.model, gc) THEN Raise(s, "AttributeError")
               ELSE Mutate(s, msl,
                      [s.heap[msl] EXCEPT
                         !.ps = IF brush.ps # NoTag THEN brush.ps ELSE @,
                         !.bs = IF brush.bs # NoTag THEN brush.bs ELSE @,
                         !.pc = IF brush.ps # NoTag THEN FALSE ELSE @,
                         !.bc = IF brush.bs # NoTag THEN FALSE ELSE @])
          ELSE IF create THEN add_particle(s, l.model, gc, brush.ps, brush.bs)
          ELSE s
    IN brush_each(s1, h, brush, dps \ {dp})

\* EditBasicLayer.apply_brush
\* the end of apply_brush: mark_dirty(particles) and the <<Model>> notification
brush_done(s, h, dps) ==
  IF ~Ok(s) THEN s
  ELSE emit_model_event(mark_dirty(s, h, dps), L(s, h).model,
                        {dp_gridcoord(L(s, h), dp) : dp \in dps})

\* EditBasicLayer.apply_brush
apply_brush(s, h, brush, dps) == brush_done(brush_each(s, h, brush, dps), h, dps)

\* EditBasicLayer.handle_paint
\* handle_paint once the clicked particle is selected
paint_selected(s, h) ==
  update_layer(apply_brush(s, h, L(s, h).brush, L(s, h).selected), h)

\* EditBasicLayer.handle_paint
handle_paint(s0, h, gc) ==
  LET l == L(s0, h)
      s == [s0 EXCEPT !.calls = Append(@, <<"paint", l.uid, gc>>)]
  IN
  IF l.model = NoModel THEN Raise(s, "AttributeError")
  ELSE IF point_hidden(l, gc) THEN s
  ELSE IF ~point_drawn(l, gc) THEN Raise(s, "KeyError")
  ELSE paint_selected(IF ~particle_selected(l, <<"d", gc>>)
                      THEN new_selection(s, h, {<<"d", gc>>}, FALSE) ELSE s, h)

\* SelectLayer.handle_leftpress
handle_leftpress(s, h, gc) ==
  LET l == L(s, h) IN
  IF l.model = NoModel THEN Raise(s, "AttributeError")
  ELSE IF point_hidden(l, gc) THEN new_selection(s, h, {}, FALSE)
  ELSE IF ~point_drawn(l, gc) THEN Raise(s, "KeyError")
  ELSE IF ~particle_selected(l, <<"d", gc>>)
       THEN new_selection(s, h, {<<"d", gc>>}, FALSE) ELSE s

\* SelectLayer.box_selection
box_selection(s, h, dps) ==
  LET l == L(s, h)
      box == calc_bbox({dp_gridcoord(l, dp) : dp \in dps}, 0)
      gcs == {gc \in grid_points_iterator(box) : ~point_hidden(l, gc)}
  IN new_selection(get_particles_at(s, h, gcs), h, {<<"d", gc>> : gc \in gcs}, FALSE)

\* SelectLayer.body_selection: the layer classes define no method
\* _calc_connected_body_particles, so looking it up raises AttributeError
body_selection(s, h, dp, append) == Raise(s, "AttributeError")

\* SelectLayer.handle_rightpress
handle_rightpress(s0, h, gc, shift, ctrl) ==
  LET l == L(s0, h)
      s == IF shift \/ ctrl
           THEN [s0 EXCEPT !.calls = Append(@, <<"rightpress", l.uid, gc, shift, ctrl>>)]
           ELSE s0
  IN
  IF l.model = NoModel THEN Raise(s, "AttributeError")
  ELSE IF point_hidden(l, gc) THEN update_layer(new_selection(s, h, {}, FALSE), h)
  ELSE IF ~point_drawn(l, gc) THEN Raise(s, "KeyError")
  ELSE IF ctrl THEN update_layer(body_selection(s, h, <<"d", gc>>, shift), h)
  ELSE IF shift THEN update_layer(box_selection(s, h, l.selected \cup {<<"d", gc>>}), h)
  ELSE update_layer(new_selection(s, h, {<<"d", gc>>}, FALSE), h)

\* ViewLayer.set_particle_at(gridcoord, p), p a DrawnParticle holding value v
\* set_particle_at, first line: the DrawnParticle at gc, created when not drawn
drawn_or_added(s, h, gc) ==
  IF ~Ok(s) THEN s
  ELSE IF L(s, h).type = "Move" THEN Raise(s, "AssertionError")
  ELSE IF point_drawn(L(s, h), gc) THEN s ELSE add_particle_at(s, h, gc)

\* set_particle_at, the rest: old.model_particle = p.model_particle and the
\* model stores old.model_particle itself
store_particle(s, h, gc, v) ==
  IF ~Ok(s) THEN s
  ELSE LET l == L(s, h)
           dsl == DSlot(l.uid, "d", gc)
           s2 == dp_set_value(s, dsl, v)
       IN SetL(IF v = NoP THEN remove_particle(s2, l.model, gc)
               ELSE set_particle(s2, l.model, gc, dsl),
               h, [l EXCEPT !.points = @ \cup {gc}, !.dirty = @ \cup {<<"d", gc>>}])

\* ViewLayer.set_particle_at(gridcoord, p), p a DrawnParticle holding value v
set_particle_at(s, h, gc, v) == store_particle(drawn_or_added(s, h, gc), h, gc, v)

\* SelectLayer.remove_particle_at
remove_particle_at(s, h, gc) ==
  LET l == L(s, h) IN
  IF ~Ok(s) THEN s
  ELSE LET s1 == remove_particle(s, l.model, gc)
       IN IF gc \notin l.points THEN Raise(s1, "KeyError")
          ELSE LET s2 == SetL(s1, h, [l EXCEPT !.points = @ \ {gc}])
               IN IF point_selected(l, gc) THEN remove_selection(s2, h, {<<"d", gc>>})
                  ELSE s2

RECURSIVE remove_particles_at(_, _, _)
\* ViewLayer.remove_particles_at
remove_particles_at(s, h, gcs) ==
  IF gcs = {} \/ ~Ok(s) THEN s
  ELSE LET gc == CHOOSE x \in gcs : TRUE
       IN remove_particles_at(remove_particle_at(s, h, gc), h, gcs \ {gc})

\* The value held by the model of layer hc at gc (a DrawnParticle built from it)
ModelParticleValue(s, m, gc) ==
  IF has_particle(s, m, gc) THEN s.heap[MSlot(m, gc)] ELSE NoP

\* a start-coordinate set that ignores the PasteLayer override
start_coordinates_initial(l) == l.initPoints

start_coordinates(l) == IF l.type = "Paste" THEN {} ELSE l.initPoints
finish_coordinates(l) == l.points

RECURSIVE merge_each_sharing(_, _, _, _)
\* an absorbing loop that stores the child's Particle objects themselves
merge_each_sharing(s, hp, hc, gcs) ==
  IF gcs = {} \/ ~Ok(s) THEN s
  ELSE LET gc == CHOOSE x \in gcs : TRUE
           cm == L(s, hc).model
           pm == L(s, hp).model
       IN merge_each_sharing(
            IF has_particle(s, cm, gc)
            THEN set_particle(s, pm, gc, MSlot(cm, gc))
            ELSE remove_particle(s, pm, gc),
            hp, hc, gcs \ {gc})

RECURSIVE merge_each_notifying(_, _, _, _)
\* an absorbing loop that notifies once per coordinate
merge_each_notifying(s, hp, hc, gcs) ==
  IF gcs = {} \/ ~Ok(s) THEN s
  ELSE LET gc == CHOOSE x \in gcs : TRUE
           v == ModelParticleValue(s, L(s, hc).model, gc)
       IN merge_each_notifying(
            emit_model_event(set_particle_at(s, hp, gc, v), L(s, hp).model, {gc}),
            hp, hc, gcs \ {gc})

RECURSIVE merge_each(_, _, _, _)
\* the absorbing loop of EditBasicLayer.merge
merge_each(s, hp, hc, gcs) ==
  IF gcs = {} \/ ~Ok(s) THEN s
  ELSE LET gc == CHOOSE x \in gcs : TRUE
           v == ModelParticleValue(s, L(s, hc).model, gc)
       IN merge_each(set_particle_at(s, hp, gc, v), hp, hc, gcs \ {gc})

\* EditBasicLayer.merge(layer)
\* self.points |= gcs
add_points(s, h, gcs) ==
  IF ~Ok(s) THEN s ELSE SetL(s, h, [L(s, h) EXCEPT !.points = @ \cup gcs])

\* a merge that does not remove the start coordinates of the child
merge_keep_start(s, hp, hc) ==
  LET c == L(s, hc)
      start_gc == start_coordinates(c)
      finish_gc == finish_coordinates(c)
      selected_gc == {dp_gridcoord(c, dp) : dp \in c.selected}
  IN IF ~Ok(s) THEN s
     ELSE IF L(s, hp).type = "Move" THEN Raise(Log(s, "merge", L(s, hp).uid), "AssertionError")
     ELSE emit_model_event(
            set_selected(
              get_particles_at(
                add_particles_at(
                  merge_each(
                    add_points(Log(s, "merge", L(s, hp).uid), hp, finish_gc),
                    hp, hc, finish_gc),
                  hp, selected_gc),
                hp, selected_gc),
              hp, {<<"d", gc>> : gc \in selected_gc}),
            L(s, hp).model, start_gc \cup finish_gc \cup selected_gc)

\* EditBasicLayer.merge(layer)
merge(s, hp, hc) ==
  LET c == L(s, hc)
      start_gc == start_coordinates(c)
      finish_gc == finish_coordinates(c)
      selected_gc == {dp_gridcoord(c, dp) : dp \in c.selected}
  IN IF ~Ok(s) THEN s
     ELSE IF L(s, hp).type = "Move" THEN Raise(Log(s, "merge", L(s, hp).uid), "AssertionError")
     ELSE emit_model_event(
            set_selected(
              get_particles_at(
                add_particles_at(
                  merge_each(
                    add_points(
                      remove_particles_at(Log(s, "merge", L(s, hp).uid), hp, start_gc),
                      hp, finish_gc),
                    hp, hc, finish_gc),
                  hp, selected_gc),
                hp, selected_gc),
              hp, {<<"d", gc>> : gc \in selected_gc}),
            L(s, hp).model, start_gc \cup finish_gc \cup selected_gc)

----------------------------------------------------------------------------
(* MoveLayer *)

\* MoveLayer._offset_rounded for a start position and a raw offset
OffsetRounded(startpos, offset) ==
  LET finalpos == <<startpos[1] + offset[1], startpos[2] + offset[2]>>
      sr == gridcoord_to_pixel(pixel_to_gridcoord(startpos, Diameter), Diameter)
      fr == gridcoord_to_pixel(pixel_to_gridcoord(finalpos, Diameter), Diameter)
  IN <<fr[1] - sr[1], fr[2] - sr[2]>>

offset_rounded(l) == OffsetRounded(l.startpos, l.offset)

\* MoveLayer._move_particle: the new grid coordinate of a particle at gc
MovedCoord(gc, off) ==
  LET old_pos == gridcoord_to_pixel(gc, Diameter)
  IN pixel_to_gridcoord(<<old_pos[1] + off[1], old_pos[2] + off[2]>>, Diameter)

\* MoveLayer._set_duplicating
set_duplicating(s, h, d) ==
  LET l == L(s, h) IN
  IF ~Ok(s) \/ l.duplicating = d THEN s
  ELSE SetL(s, h, [l EXCEPT !.duplicating = d,
                            !.dirty = @ \cup stationary_particles_iterator(l)])

\* MoveLayer.start
select_moving(s, h) == set_selected(s, h, moving_particles_iterator(L(s, h)))
move_start(s, h) == select_moving(select_start(s, h), h)

\* a finish loop that leaves every donor coordinate as it is
finish_stationary_keep(s, h, keys) == s

RECURSIVE finish_stationary(_, _, _)
\* MoveLayer.finish, the loop over the stationary particles
finish_stationary(s, h, keys) ==
  IF keys = {} THEN s
  ELSE LET k == CHOOSE x \in keys : TRUE
           l == L(s, h)
           ssl == DSlot(l.uid, "s", k)
           s1 == IF ~l.duplicating \/ ssl \notin DOMAIN s.heap
                 THEN remove_particle(s, l.model, k)
                 ELSE set_particle(s, l.model, k, ssl)
       IN finish_stationary(s1, h, keys \ {k})

RECURSIVE finish_moving_private_only(_, _, _, _)
\* a move that changes the coordinate of the private particle only
finish_moving_private_only(s, h, keys, off) ==
  IF keys = {} THEN s
  ELSE LET k == CHOOSE x \in keys : TRUE
           l == L(s, h)
           dsl == DSlot(l.uid, "d", k)
           new_gc == MovedCoord(l.dgc[k], off)
       IN finish_moving_private_only(
            IF dsl \in DOMAIN s.heap
            THEN set_particle(Mutate(s, dsl, [s.heap[dsl] EXCEPT !.gc = new_gc]),
                              l.model, new_gc, dsl)
            ELSE remove_particle(s, l.model, new_gc),
            h, keys \ {k}, off)

RECURSIVE finish_moving(_, _, _, _)
\* MoveLayer.finish, the loop over the moving particles
finish_moving(s, h, keys, off) ==
  IF keys = {} THEN s
  ELSE LET k == CHOOSE x \in keys : TRUE
           l == L(s, h)
           dsl == DSlot(l.uid, "d", k)
           new_gc == MovedCoord(l.dgc[k], off)
           s1 == SetL(s, h, [l EXCEPT !.dgc[k] = new_gc])
       IN finish_moving(
            IF dsl \in DOMAIN s.heap
            THEN set_particle(Mutate(s1, dsl, [s.heap[dsl] EXCEPT !.gc = new_gc]),
                              l.model, new_gc, dsl)
            ELSE remove_particle(s1, l.model, new_gc),
            h, keys \ {k}, off)

\* MoveLayer.finish, the last lines: the points of the layer
move_points(s, h) ==
  LET l == L(s, h)
      moved == {l.dgc[k] : k \in l.drawn}
  IN SetL(s, h, [l EXCEPT !.points = IF l.duplicating THEN @ \cup moved ELSE moved])

\* a finish that writes the moved particles before the donors
move_finish_body_moving_first(s, h) ==
  IF ~Ok(s) THEN s
  ELSE update_layer(
         move_points(
           finish_stationary(finish_moving(s, h, L(s, h).drawn,
                                           offset_rounded(L(s, h))),
                             h, L(s, h).drawn),
           h),
         h)

\* MoveLayer.finish after SelectLayer.finish
move_finish_body(s, h) ==
  IF ~Ok(s) THEN s
  ELSE update_layer(
         move_points(
           finish_moving(finish_stationary(s, h, L(s, h).drawn), h, L(s, h).drawn,
                         offset_rounded(L(s, h))),
           h),
         h)

\* MoveLayer.finish
move_finish(s, h) == move_finish_body(view_finish(s, h), h)

----------------------------------------------------------------------------
(* RotateLayer *)

RotateCenter(points) ==
  LET box == gridcoord_to_pixel_bbox(calc_bbox(points, 0), Diameter)
      center_pixel == <<TruncDiv(box[1] + box[3], 2), TruncDiv(box[2] + box[4], 2)>>
  IN pixel_to_gridcoord(center_pixel, Diameter)

RECURSIVE rotate_each(_, _, _, _, _, _)
\* RotateLayer.start, the loop over the mapping
select_rotated(s, h, was_selected, new_gc) ==
  IF was_selected THEN new_selection(s, h, {<<"d", new_gc>>}, TRUE) ELSE s

rotate_each(s, h, gcs, center, old_particles, old_selection) ==
  IF gcs = {} \/ ~Ok(s) THEN s
  ELSE LET old_gc == CHOOSE x \in gcs : TRUE
           new_gc == rotate_gridcoord(old_gc, center, L(s, h).steps)
       IN rotate_each(
            select_rotated(set_particle_at(s, h, new_gc, old_particles[old_gc]),
                           h, old_gc \in old_selection, new_gc),
            h, gcs \ {old_gc}, center, old_particles, old_selection)

\* RotateLayer.start after EditBasicLayer.start
rotate_body(s, h) ==
  LET l == L(s, h)
      pts == l.points
      old_particles == [gc \in pts |->
                          IF dp_in_model(s, l, <<"d", gc>>)
                          THEN s.heap[DSlot(l.uid, "d", gc)] ELSE NoP]
      old_selection == {dp_gridcoord(l, dp) : dp \in l.selected}
  IN IF ~Ok(s) THEN s
     ELSE IF pts = {} THEN Raise(s, "TypeError")
     ELSE update_layer(
            rotate_each(remove_particles_at(s, h, pts), h, pts, RotateCenter(pts),
                        old_particles, old_selection),
            h)

\* RotateLayer.start
rotate_start(s, h) == rotate_body(select_start(s, h), h)

----------------------------------------------------------------------------
(* TestCanvas: the layer stack *)

start(s, h) ==
  LET ty == L(s, h).type
  IN IF ty = "Move" THEN move_start(s, h)
     ELSE IF ty = "Rotate" THEN rotate_start(s, h)
     ELSE IF ty = "View" THEN view_start(s, h)
     ELSE select_start(s, h)

finish(s, h) == IF L(s, h).type = "Move" THEN move_finish(s, h) ELSE view_finish(s, h)

Top(s) == Len(s.layers)

\* what a parent shows: model content, points and selection
LayerView(s, l) ==
  [model |-> ModelVal(s, l.model), points |-> l.points, selected |-> l.selected]

\* TestCanvas.start_layer.  The new layer remembers (for the properties below)
\* its parent's view before the call and its own model before start().
push_layer(s, rec) == IF Ok(s) THEN [s EXCEPT !.layers = Append(@, rec)] ELSE s
start_top(s) == IF Ok(s) THEN start(s, Len(s.layers)) ELSE s

start_layer(s, layer) ==
  IF ~Ok(s) THEN s
  ELSE start_top(
         push_layer(pause(s, Top(s)),
                    [layer EXCEPT !.psnap = LayerView(s, L(s, Top(s))),
                                  !.snap = ModelVal(s, layer.model)]))

\* self._layers.pop(): the popped layer stays reachable through `dead`
pop_layer(s) ==
  LET old == s.dead
      s1 == IF old.uid # 0 THEN DropOwner(s, old.uid) ELSE s
  IN [s1 EXCEPT !.dead = s.layers[Len(s.layers)],
                !.layers = SubSeq(s.layers, 1, Len(s.layers) - 1)]

top_or_raise(s) == IF Ok(s) /\ Len(s.layers) = 0 THEN Raise(s, "IndexError") ELSE s

\* TestCanvas.merge_top_layer
merge_top(s) == IF Ok(s) THEN merge(s, Top(s), 0) ELSE s
resume_top(s) == IF Ok(s) THEN resume(s, Top(s)) ELSE s

\* a merge_top_layer that cleans the popped layer before merging it
merge_top_layer_clean_first(s) ==
  IF ~Ok(s) THEN s
  ELSE IF Len(s.layers) = 0 THEN Raise(s, "IndexError")
  ELSE resume_top(top_or_raise(merge_top(clean(top_or_raise(finish(pop_layer(s), 0)), 0))))

merge_top_layer(s) ==
  IF ~Ok(s) THEN s
  ELSE IF Len(s.layers) = 0 THEN Raise(s, "IndexError")
  ELSE resume_top(top_or_raise(clean(merge_top(top_or_raise(finish(pop_layer(s), 0))), 0)))

\* TestCanvas.cancel_top_layer
cancel_top_layer(s) ==
  IF ~Ok(s) THEN s
  ELSE IF Len(s.layers) = 0 THEN Raise(s, "IndexError")
  ELSE resume_top(top_or_raise(clean(cancel(pop_layer(s), 0), 0)))

\* EditBasicLayer.get_operation_particles / EditBackgroundLayer.get_operation_particles:
\* fills the new Model m and returns the coordinates
get_operation_particles(s, h, m) ==
  LET l == L(s, h)
      sel_refs == {dp_slot(l, dp) : dp \in {x \in l.selected : dp_in_model(s, l, x)}}
      all_refs == {MSlot(l.model, gc) : gc \in ModelOcc(s, l.model)}
  IN IF l.model = NoModel THEN [s |-> Raise(s, "AttributeError"), coords |-> {}]
     ELSE IF l.selected # {}
     THEN [s |-> set_particles(s, m, sel_refs),
           coords |-> {dp_gridcoord(l, dp) : dp \in l.selected}]
     ELSE [s |-> set_particles(s, m, all_refs),
           coords |-> IF l.type = "EditBackground"
                      THEN {s.heap[r].gc : r \in all_refs} ELSE l.points]

\* handle_move / handle_cut / handle_rotate: a child layer on a new Model
handle_operation(s, h, type, startpos, steps) ==
  LET uid == s.nextUid
      op == get_operation_particles(s, h, uid)
      layer == [NewLayer(uid, type, uid, op.coords, startpos, steps)
                  EXCEPT !.brush = IF type = "Move" THEN NoBrush ELSE L(s, h).brush]
  IN IF ~Ok(op.s) THEN op.s
     ELSE start_layer([op.s EXCEPT !.nextUid = @ + 1], layer)

handle_move(s, h, startpos) == handle_operation(s, h, "Move", startpos, 0)
handle_rotate(s, h, shift) == handle_operation(s, h, "Rotate", <<0, 0>>, IF shift THEN -1 ELSE 1)
handle_cut(s, h) ==
  IF L(s, h).selected = {} THEN s ELSE handle_operation(s, h, "EditBasic", <<0, 0>>, 0)

\* EditBasicLayer.handle_layermerge / handle_layercancel (no-ops in the background layer)
\* the <<Clipboard>> event reaches every layer that listens
deliver_clipboard(s, coords) ==
  IF ~Ok(s) THEN s
  ELSE [s EXCEPT !.clip = coords,
                 !.layers = [i \in 1 .. Len(s.layers) |->
                               IF s.layers[i].aliveBound /\ s.layers[i].type \in EditTypes
                               THEN [s.layers[i] EXCEPT !.hasClip = TRUE]
                               ELSE s.layers[i]]]

\* EditBasicLayer.handle_copy
handle_copy(s, h) ==
  LET op == get_operation_particles(DropOwner(s, ClipModel), h, ClipModel)
  IN IF L(s, h).selected = {} THEN s ELSE deliver_clipboard(op.s, op.coords)

RECURSIVE copy_model(_, _, _, _)
\* deepcopy(model): every particle of model m is cloned into model n
copy_model(s, m, n, gcs) ==
  IF gcs = {} THEN s
  ELSE LET gc == CHOOSE x \in gcs : TRUE
       IN copy_model(BindFresh(s, MSlot(n, gc), DeepCopy(s.heap[MSlot(m, gc)])),
                     m, n, gcs \ {gc})

\* EditBasicLayer.handle_paste
handle_paste(s, h) ==
  LET uid == s.nextUid
      layer == [NewLayer(uid, "Paste", uid, s.clip, <<0, 0>>, 0)
                  EXCEPT !.brush = L(s, h).brush]
  IN IF ~L(s, h).hasClip THEN s
     ELSE start_layer(
            [copy_model(s, ClipModel, uid, ModelOcc(s, ClipModel)) EXCEPT !.nextUid = @ + 1],
            layer)

\* SelectLayer.handle_selectall / EditBackgroundLayer.handle_selectall
handle_selectall(s, h) ==
  LET l == L(s, h)
      gcs == IF l.type = "EditBackground" THEN ModelOcc(s, l.model) ELSE l.points
  IN IF l.type = "EditBackground" /\ l.model = NoModel THEN Raise(s, "AttributeError")
     ELSE update_layer(
            new_selection(get_particles_at(add_particles_at(s, h, gcs), h, gcs),
                          h, {<<"d", gc>> : gc \in gcs}, FALSE),
            h)

\* a layer-merge handler that the background layer does not override
handle_layermerge_always(s, h) == merge_top_layer(s)

handle_layermerge(s, h) ==
  IF L(s, h).type = "EditBackground" THEN s ELSE merge_top_layer(s)
handle_layercancel(s, h) ==
  IF L(s, h).type = "EditBackground" THEN s ELSE cancel_top_layer(s)

\* MoveLayer.handle_drag
handle_drag(s, h, pos, shift) ==
  LET l == L(s, h)
      s1 == SetL(s, h, [l EXCEPT !.offset = <<pos[1] - l.startpos[1], pos[2] - l.startpos[2]>>])
      s2 == set_duplicating(s1, h, shift)
  IN update_layer(mark_dirty(s2, h, moving_particles_iterator(L(s2, h))), h)

\* a release that cancels when the drag stayed inside the starting cell
handle_release_rounded(s, h, shift) ==
  LET s1 == set_duplicating(s, h, shift)
  IN IF offset_rounded(L(s1, h)) = <<0, 0>> THEN cancel_top_layer(s1)
     ELSE merge_top_layer(s1)

\* MoveLayer.handle_release
handle_release(s, h, shift) ==
  LET s1 == set_duplicating(s, h, shift)
  IN IF L(s1, h).offset = <<0, 0>> THEN cancel_top_layer(s1) ELSE merge_top_layer(s1)

\* MoveLayer.handle_key
handle_key(s, h, escape, shift) ==
  IF escape THEN cancel_top_layer(s)
  ELSE update_layer(set_duplicating(s, h, shift), h)

----------------------------------------------------------------------------
(* Inputs of the model *)

Tag(ps, bs) == [ps |-> ps, bs |-> bs]

\* the designs a canvas is given by set_model
InitModels ==
  { (<<0, 0>> :> Tag("pA", "b1")) @@ (<<1, 0>> :> Tag("pA", "b2")) }

\* the erasing brush, a creating brush and a modifying brush
Brushes == {NoBrush, Tag("pB", "b2")}

CellCenter(gc) == <<gc[1] * Diameter + Diameter \div 2, gc[2] * Diameter + Diameter \div 2>>

\* where the pointer is pressed to start a drag
StartPixels == {CellCenter(<<0, 0>>)}

\* pointer positions of a drag, relative to where the drag started
DragOffsets == {<<5, 0>>, <<Diameter, 0>>}

----------------------------------------------------------------------------
(* State and actions *)

St == [heap |-> heap, share |-> share, layers |-> layers, dead |-> dead,
       evq |-> evq, idle |-> idle, exc |-> NoExc, calls |-> <<>>,
       nextUid |-> nextUid, clip |-> clip]

Commit(s) ==
  /\ heap' = s.heap
  /\ share' = s.share
  /\ layers' = s.layers
  /\ dead' = s.dead
  /\ evq' = s.evq
  /\ idle' = s.idle
  /\ exc' = s.exc
  /\ calls' = s.calls
  /\ nextUid' = s.nextUid
  /\ clip' = s.clip

\* an input event of the user or the host is handled once the queued
\* notifications have been delivered
Input ==
  /\ evq = <<>>
  /\ nInputs < MaxInputs
  /\ UNCHANGED <<sstart, soffset, mvars, gvars, ivars, evars>>

\* the handler ran to s; nInputs counts the inputs that changed something
Handled(s) ==
  /\ Commit(s)
  /\ nInputs' = IF s = St THEN nInputs ELSE nInputs + 1

Handles == 1 .. Len(layers)
RunBound(h) == layers[h].runBound
IsEdit(h) == layers[h].type \in EditTypes
IsMove(h) == layers[h].type = "Move"
CanPush == nextUid <= MaxLayers

\* TestCanvas.__init__: one layer, an EditBackgroundLayer in mode 'edit' and
\* a ViewLayer in mode 'view', not started yet
Init0(type) ==
  [heap |-> <<>>, share |-> {},
   layers |-> <<NewLayer(1, type, NoModel, {}, <<0, 0>>, 0)>>,
   dead |-> NoLayer, evq |-> <<>>, idle |-> [u \in 1 .. MaxLayers |-> 0],
   exc |-> NoExc, calls |-> <<>>, nextUid |-> 2, clip |-> {}]

\* Model.__init__ of src/model.py with the default brush b: no particle is
\* drawn before the window has its size
InitCanvas(b) ==
  /\ default_brush = b
  /\ oval_id_to_particle = <<>> /\ grid_coord_to_particle = <<>>
  /\ model_particles = {} /\ selected_particles = {}
  /\ sized = FALSE /\ raised = NoExc /\ lastop = [name |-> "init"]

InitLayers(s) ==
  /\ heap = s.heap /\ share = s.share /\ layers = s.layers /\ dead = s.dead
  /\ evq = s.evq /\ idle = s.idle /\ exc = s.exc /\ calls = s.calls
  /\ nextUid = s.nextUid /\ clip = s.clip
  /\ nInputs = 0
  /\ sstart = <<0, 0>> /\ soffset = <<0, 0>>

\* the arguments of the next calls to the grid; nothing was computed yet
InitGrid(d, pixel, coord, gcs, padding) ==
  /\ cell_diameter = d /\ grid_pixel = pixel /\ grid_gc = coord
  /\ grid_coords = gcs /\ grid_padding = padding
  /\ grid_box = <<>> /\ grid_points = {} /\ grid_op = <<>>

NoGridCall == InitGrid(Diameter, <<0, 0>>, <<0, 0>>, {}, 0)

\* the application before an import: the specs of its buttons by name and by
\* index, its list of models, the file to import
InitApp(kind, file) ==
  /\ rbd_kind = kind /\ rbd_file = file
  /\ tool_particle_specs = <<"pX", "pY">> /\ tool_body_specs = <<"7">>
  /\ models_list = <<[grid_type |-> 0, particles |-> {}]>>
  /\ import_raised = NoExc

NoImport == InitApp("Application", <<>>)

\* utils.event_data = dict(): no data registered, no event generated
NoEvents == event_data = <<>> /\ event_queue = <<>> /\ event_got = <<>>

InitFrom(s) ==
  InitLayers(s) /\ InitCanvas(Tag(NoTag, NoTag)) /\ NoGridCall /\ NoImport /\ NoEvents

\* the state after TestCanvas(master, mode = ...): the only layer is started
Init == \E mode \in {"EditBackground", "View"} : InitFrom(start(Init0(mode), 1))

RECURSIVE load_model(_, _, _)
load_model(s, m, content) ==
  IF DOMAIN content = {} THEN s
  ELSE LET gc == CHOOSE x \in DOMAIN content : TRUE
       IN load_model(add_particle(s, m, gc, content[gc].ps, content[gc].bs), m,
                     Restrict(content, DOMAIN content \ {gc}))

\* ViewLayer.set_model
set_model(s, h, m) ==
  LET s1 == SetL(s, h, [L(s, h) EXCEPT !.model = m, !.points = @ \cup ModelOcc(s, m)])
      l == L(s1, h)
      s2 == add_particles_at(s1, h, l.points)
      s3 == get_particles_at(s2, h, L(s2, h).points)
  IN IF ~l.started THEN s1
     ELSE update_layer(AllDirty(s3, h), h)

\* TestCanvas.set_model(model) with a design of InitModels
SetModel ==
  /\ layers[1].model = NoModel
  /\ evq = <<>>
  /\ UNCHANGED <<nInputs, sstart, soffset, mvars, gvars, ivars, evars>>
  /\ \E content \in InitModels :
       Commit(set_model(load_model(St, DesignModel, content), 1, DesignModel))

\* <<Brush>>: EditBasicLayer.handle_brush_event in every layer that listens
BrushEvent ==
  /\ Input
  /\ \E b \in Brushes :
       /\ \E h \in Handles : layers[h].aliveBound /\ IsEdit(h) /\ layers[h].brush # b
       /\ Handled([St EXCEPT !.layers =
                    [h \in Handles |->
                       IF layers[h].aliveBound /\ IsEdit(h)
                       THEN [layers[h] EXCEPT !.brush = b] ELSE layers[h]]])

LeftPress ==
  /\ Input
  /\ \E h \in Handles, gc \in Universe :
       RunBound(h) /\ IsEdit(h) /\ Handled(handle_leftpress(St, h, gc))

RightPress ==
  /\ Input
  /\ \E h \in Handles, gc \in Universe, shift \in BOOLEAN :
       RunBound(h) /\ Handled(handle_rightpress(St, h, gc, shift, FALSE))

Paint ==
  /\ Input
  /\ \E h \in Handles, gc \in Universe :
       RunBound(h) /\ IsEdit(h) /\ Handled(handle_paint(St, h, gc))

MoveStart ==
  /\ Input /\ CanPush
  /\ \E h \in Handles, pos \in StartPixels :
       RunBound(h) /\ IsEdit(h) /\ Handled(handle_move(St, h, pos))

Rotate ==
  /\ Input /\ CanPush
  /\ \E h \in Handles, shift \in BOOLEAN :
       RunBound(h) /\ IsEdit(h) /\ Handled(handle_rotate(St, h, shift))

Cut ==
  /\ Input /\ CanPush
  /\ \E h \in Handles :
       RunBound(h) /\ IsEdit(h) /\ Handled(handle_cut(St, h))

LayerMerge ==
  /\ Input
  /\ \E h \in Handles :
       RunBound(h) /\ IsEdit(h) /\ Handled(handle_layermerge(St, h))

LayerCancel ==
  /\ Input
  /\ \E h \in Handles :
       RunBound(h) /\ IsEdit(h) /\ Handled(handle_layercancel(St, h))

Copy ==
  /\ Input
  /\ \E h \in Handles :
       RunBound(h) /\ IsEdit(h) /\ Handled(handle_copy(St, h))

Paste ==
  /\ Input /\ CanPush
  /\ \E h \in Handles :
       RunBound(h) /\ IsEdit(h) /\ Handled(handle_paste(St, h))

SelectAll ==
  /\ Input
  /\ \E h \in Handles :
       RunBound(h) /\ Handled(handle_selectall(St, h))

Drag ==
  /\ Input
  /\ \E h \in Handles, off \in DragOffsets, shift \in BOOLEAN :
       /\ RunBound(h) /\ IsMove(h)
       /\ Handled(handle_drag(St, h, <<layers[h].startpos[1] + off[1],
                                      layers[h].startpos[2] + off[2]>>, shift))

Release ==
  /\ Input
  /\ \E h \in Handles, shift \in BOOLEAN :
       RunBound(h) /\ IsMove(h) /\ Handled(handle_release(St, h, shift))

Key ==
  /\ Input
  /\ \E h \in Handles, escape \in BOOLEAN, shift \in BOOLEAN :
       RunBound(h) /\ IsMove(h) /\ Handled(handle_key(St, h, escape, shift))

RECURSIVE dispatch_model_event(_, _, _)
dispatch_model_event(s, h, ev) ==
  IF h > Len(s.layers) THEN s
  ELSE dispatch_model_event(
         IF s.layers[h].aliveBound THEN handle_model_event(s, h, ev) ELSE s, h + 1, ev)

\* the next <<Model>> notification of the event queue reaches every listener
ModelEvent ==
  /\ Len(evq) > 0
  /\ Commit(dispatch_model_event([St EXCEPT !.evq = Tail(evq)], 1, Head(evq)))
  /\ UNCHANGED <<nInputs, sstart, soffset, mvars, gvars, ivars, evars>>

HandleOf(s, u) ==
  IF \E h \in 1 .. Len(s.layers) : s.layers[h].uid = u
  THEN CHOOSE h \in 1 .. Len(s.layers) : s.layers[h].uid = u
  ELSE IF s.dead.uid = u THEN 0 ELSE -1

RECURSIVE run_updates(_, _, _)
keep_exc(s, prev) == [s EXCEPT !.exc = IF Ok(s) THEN prev ELSE s.exc]

run_updates(s, h, n) ==
  IF n = 0 THEN s
  ELSE run_updates(keep_exc(update([s EXCEPT !.exc = NoExc], h), s.exc), h, n - 1)

RECURSIVE run_idle(_, _)
run_idle(s, u) ==
  IF u > MaxLayers THEN s
  ELSE LET h == HandleOf(s, u)
           s1 == IF h = -1 THEN s ELSE run_updates(s, h, s.idle[u])
       IN run_idle([s1 EXCEPT !.idle[u] = 0], u + 1)

\* once its pending updates have run nothing refers to the popped layer
collect_dead(s) ==
  IF s.dead.uid = 0 THEN s ELSE [DropOwner(s, s.dead.uid) EXCEPT !.dead = NoLayer]

\* the idle point: every update requested with after_idle runs
Idle ==
  /\ evq = <<>>
  /\ \E u \in 1 .. MaxLayers : idle[u] > 0
  /\ Commit(collect_dead(run_idle(St, 1)))
  /\ UNCHANGED <<nInputs, sstart, soffset, mvars, gvars, ivars, evars>>

Next ==
  \/ SetModel \/ BrushEvent \/ LeftPress \/ RightPress \/ SelectAll \/ Paint
  \/ MoveStart \/ Rotate \/ Cut \/ Copy \/ Paste \/ LayerMerge \/ LayerCancel
  \/ Drag \/ Release \/ Key \/ ModelEvent \/ Idle

Spec == Init /\ [][Next]_vars

----------------------------------------------------------------------------
(* Properties of the layer stack *)

\* the state as a record, with the outcome of the last handler
Cur == [St EXCEPT !.exc = exc, !.calls = calls]

WasCalled(what, uid) == \E i \in 1 .. Len(calls) : calls[i] = <<what, uid>>

TopLayer == layers[Len(layers)]

\* the last handler popped a layer and cancelled it
JustCancelled == dead.uid # 0 /\ WasCalled("cancel", dead.uid)

\* the last handler popped a layer, finished it and merged it into the top
JustMerged ==
  /\ dead.uid # 0 /\ Len(layers) > 0
  /\ WasCalled("finish", dead.uid) /\ WasCalled("merge", TopLayer.uid)

\* no layer was stacked on the popped layer while it lived
NoChildOf(l) == nextUid = l.uid + 1

\* C1: for every editing layer L (EditBasic, Move, Rotate, Paste), when L has
\* been started, has handled only drag, paint and selection events and is then
\* cancelled, L's Model holds exactly the content it had before L.start().
CancelRestoresModel ==
  (JustCancelled /\ dead.type \in {"EditBasic", "Move", "Rotate", "Paste"}
     /\ NoChildOf(dead))
    => ModelVal(Cur, dead.model) = dead.snap

\* C2: while a child layer is on the stack, and after it was cancelled, its
\* parent's model content, points and selection are what they were right
\* before start_layer(child).
ParentUntouchedByChild ==
  /\ \A h \in 1 .. Len(layers) - 1 :
       LayerView(Cur, layers[h]) = layers[h + 1].psnap
  /\ (JustCancelled /\ Len(layers) > 0)
       => LayerView(Cur, TopLayer) = dead.psnap

\* C3: after construction and after every completed start_layer,
\* merge_top_layer and cancel_top_layer, at most one layer of the stack is
\* running, it is the top one, and every layer below is alive and paused.
OneRunningOnTop ==
  (exc = NoExc) =>
    /\ Cardinality({h \in Handles : running(layers[h])}) <= 1
    /\ \A h \in Handles : running(layers[h]) => h = Len(layers)
    /\ \A h \in 1 .. Len(layers) - 1 : alive(layers[h]) /\ layers[h].paused

OneRunningOnTop_Witness ==
  /\ exc = NoExc /\ Len(layers) = 2 /\ JustMerged
  /\ running(TopLayer) /\ layers[1].paused

\* the tags of the particle a model holds at gc, if it holds one
TagsAt(m, gc) == IF has_particle(Cur, m, gc) THEN Tags(heap[MSlot(m, gc)]) ELSE NoP

\* C4: after parent.merge(child), the parent's model holds at every finish
\* coordinate of the child a particle with the tags of the child's particle
\* there (nothing if the child has nothing there), and holds nothing at a
\* start coordinate of the child that is not a finish coordinate.
MergeConservation ==
  (JustMerged /\ exc = NoExc) =>
    /\ \A gc \in finish_coordinates(dead) :
         TagsAt(TopLayer.model, gc) = TagsAt(dead.model, gc)
    /\ \A gc \in start_coordinates(dead) \ finish_coordinates(dead) :
         ~has_particle(Cur, TopLayer.model, gc)

MergeConservation_Witness ==
  /\ JustMerged /\ exc = NoExc
  /\ start_coordinates(dead) \ finish_coordinates(dead) # {}
  /\ \E gc \in finish_coordinates(dead) : has_particle(Cur, dead.model, gc)
  /\ \E gc \in finish_coordinates(dead) : ~has_particle(Cur, dead.model, gc)

\* C5: a completed merge_top_layer has called, on the popped layer X and the
\* new top P, exactly X.finish(), P.merge(X), X.clean(), P.resume(), in that
\* order; P's input handlers are bound by the last call only.
MergeTopLayerOrder ==
  (JustMerged /\ exc = NoExc) =>
    calls = << <<"finish", dead.uid>>, <<"merge", TopLayer.uid>>,
               <<"clean", dead.uid>>, <<"resume", TopLayer.uid>> >>

MergeTopLayerOrder_Witness ==
  JustMerged /\ exc = NoExc /\ dead.cleaned /\ TopLayer.runBound

\* the last handler popped a MoveLayer and finished it
MoveFinished == dead.uid # 0 /\ dead.type = "Move" /\ WasCalled("finish", dead.uid)

\* a coordinate translated by the snapped offset of the popped MoveLayer
Translated(gc) ==
  <<gc[1] + (offset_rounded(dead)[1] \div Diameter),
    gc[2] + (offset_rounded(dead)[2] \div Diameter)>>

DuplicatingKeepsDonors ==
  (MoveFinished /\ dead.duplicating) =>
    \A gc \in DOMAIN dead.snap :
      gc \notin {Translated(g) : g \in DOMAIN dead.snap}
        => /\ gc \in DOMAIN ModelVal(Cur, dead.model)
           /\ ModelVal(Cur, dead.model)[gc] = dead.snap[gc]

\* C9: between stack operations, the running handlers of every layer are
\* bound iff the layer is running and its alive handlers iff it is alive;
\* only the top layer handles input and a popped layer handles nothing.
HandlersFollowLifecycle ==
  /\ \A h \in Handles :
       /\ layers[h].aliveBound <=> alive(layers[h])
       /\ HasRunningHandlers(layers[h].type)
            => (layers[h].runBound <=> running(layers[h]))
       /\ layers[h].runBound => h = Len(layers)
  /\ dead.uid # 0 => ~dead.aliveBound /\ ~dead.runBound

HandlersFollowLifecycle_Witness ==
  /\ Len(layers) = 2 /\ dead.uid # 0 /\ dead.canceled
  /\ layers[2].runBound /\ layers[1].aliveBound /\ ~layers[1].runBound

----------------------------------------------------------------------------
(* The snapping of a drag: MoveLayer._offset_rounded and _move_particle     *)
(* over press and pointer positions on both sides of the origin             *)

SnapPixels == (-MaxPix .. MaxPix) \X {-5, 5}
SnapCoords == {<<0, 0>>, <<-1, 0>>, <<1, -2>>}

InitSnap ==
  InitFrom(start(Init0("EditBackground"), 1))

\* the press position of a drag (MoveLayer.__init__ keeps it as _startpos)
SnapPress ==
  /\ soffset = <<0, 0>>
  /\ \E pos \in SnapPixels : sstart' = pos
  /\ UNCHANGED <<heap, share, layers, dead, evq, idle, exc, calls, nextUid,
                 clip, nInputs, soffset, mvars, gvars, ivars, evars>>

\* MoveLayer.handle_drag: the raw offset of the pointer from the press position
SnapDrag ==
  /\ \E pos \in SnapPixels :
       soffset' = <<pos[1] - sstart[1], pos[2] - sstart[2]>>
  /\ UNCHANGED <<heap, share, layers, dead, evq, idle, exc, calls, nextUid,
                 clip, nInputs, sstart, mvars, gvars, ivars, evars>>

NextSnap == SnapPress \/ SnapDrag

SpecSnap == InitSnap /\ [][NextSnap]_vars

\* the grid cell that contains a pixel
PointerCell(p) == <<p[1] \div Diameter, p[2] \div Diameter>>

\* the cells the pointer crossed between press and its present position
CellStep ==
  <<PointerCell(<<sstart[1] + soffset[1], sstart[2] + soffset[2]>>)[1]
      - PointerCell(sstart)[1],
    PointerCell(<<sstart[1] + soffset[1], sstart[2] + soffset[2]>>)[2]
      - PointerCell(sstart)[2]>>

\* C8: for every press pixel and drag offset, negative pixels included: while
\* the pointer stays in the cell of the press the snapped offset is zero and
\* no moving particle changes coordinate; when it has crossed exactly one
\* cell boundary on one axis every moving particle moves by exactly one grid
\* unit on that axis and by zero on the other.
SnapFollowsCells ==
  /\ CellStep = <<0, 0>> =>
       /\ OffsetRounded(sstart, soffset) = <<0, 0>>
       /\ \A gc \in SnapCoords : MovedCoord(gc, OffsetRounded(sstart, soffset)) = gc
  /\ CellStep \in {<<1, 0>>, <<-1, 0>>, <<0, 1>>, <<0, -1>>} =>
       \A gc \in SnapCoords :
         MovedCoord(gc, OffsetRounded(sstart, soffset))
           = <<gc[1] + CellStep[1], gc[2] + CellStep[2]>>

----------------------------------------------------------------------------
(* The lifecycle interface of one layer, called directly in any order       *)

LayerTypes == {"View", "EditBackground", "EditBasic", "Move", "Rotate", "Paste"}

\* a layer of each class over a design, constructed and not started
InitLife ==
  \E type \in LayerTypes, content \in InitModels :
    InitFrom([load_model(Init0(type), DesignModel, content)
                EXCEPT !.layers = <<NewLayer(1, type, DesignModel, DOMAIN content,
                                             CellCenter(<<0, 0>>), 1)>>])

ApiCall ==
  /\ nInputs < MaxInputs
  /\ nInputs' = nInputs + 1
  /\ UNCHANGED <<sstart, soffset, mvars, gvars, ivars, evars>>

ApiStart == ApiCall /\ Commit(start(St, 1))
ApiPause == ApiCall /\ Commit(pause(St, 1))
ApiResume == ApiCall /\ Commit(resume(St, 1))
ApiFinish == ApiCall /\ Commit(finish(St, 1))
ApiCancel == ApiCall /\ Commit(cancel(St, 1))
ApiClean == ApiCall /\ Commit(clean(St, 1))

NextLife == ApiStart \/ ApiPause \/ ApiResume \/ ApiFinish \/ ApiCancel \/ ApiClean

SpecLife == InitLife /\ [][NextLife]_vars

\* the call failed an assertion and left the layer and the models alone
Rejected ==
  /\ exc' = "AssertionError"
  /\ UNCHANGED <<heap, share, layers, dead, evq, idle>>

\* C10: for every layer type, resume() on a layer that is not paused and
\* start() on a layer that is already started fail an assertion and change
\* no state.
InvalidTransitionRejected ==
  [][ /\ (calls'[1] = <<"resume", 1>> /\ ~layers[1].paused) => Rejected
      /\ (calls'[1] = <<"start", 1>> /\ layers[1].started) => Rejected ]_vars

\* C11: once clean() has been called on a layer none of its methods runs
\* again: no update() requested with update_layer runs on a cleaned layer.
NoUpdateAfterClean ==
  [][\A i \in 1 .. Len(calls') :
       calls'[i][1] = "update" => ~(dead.uid = calls'[i][2] /\ dead.cleaned)]_vars

\* the coordinates of the selection of a layer
SelectedCoords(l) == {dp_gridcoord(l, dp) : dp \in l.selected}

\* C12: a completed merge(child) has emitted exactly one model-changed
\* notification, for the parent's model, whose dirty set is
\* start_coordinates(child) \cup finish_coordinates(child) \cup the
\* coordinates of the child's selection.
MergeNotifiesOnce ==
  (JustMerged /\ exc = NoExc) =>
    evq = << [model |-> TopLayer.model,
              dirty |-> start_coordinates(dead) \cup finish_coordinates(dead)
                          \cup SelectedCoords(dead)] >>

MergeNotifiesOnce_Witness ==
  /\ JustMerged /\ exc = NoExc /\ Len(evq) = 1
  /\ Cardinality(finish_coordinates(dead)) = 2
  /\ start_coordinates(dead) # finish_coordinates(dead)
  /\ dead.selected # {}

\* the slots that hold the same Particle object as slot sl
SameObject(sl) == BlockOf(Cur, sl)

\* C13: after parent.merge(child) no Particle object is shared between the
\* parent's model and the child's model or the child's drawn particles.
MergeCopiesParticles ==
  (JustMerged /\ exc = NoExc) =>
    \A sl \in DOMAIN heap :
      (sl[1] = TopLayer.model /\ sl[2] = "m") =>
        \A x \in SameObject(sl) : x[1] \notin {dead.uid, dead.model}

MergeCopiesParticles_Witness ==
  /\ JustMerged /\ exc = NoExc
  /\ \E gc \in finish_coordinates(dead) :
       /\ has_particle(Cur, TopLayer.model, gc)
       /\ has_particle(Cur, dead.model, gc)
       /\ DSlot(dead.uid, "d", gc) \in DOMAIN heap

\* C14: particle-type and body-type tags are shared references, never
\* copies: after any sequence of paint, move, rotate, paste and merge
\* operations every particle of every model still refers to the tag objects
\* it was given.
TagsStayShared ==
  \A sl \in DOMAIN heap : sl[2] = "m" => ~heap[sl].pc /\ ~heap[sl].bc
----------------------------------------------------------------------------
(* The canvas Model of src/model.py.  Its particles are objects made once   *)
(* per grid coordinate by add_new_particle and are told apart by the id of  *)
(* their oval; model_particles and selected_particles are sets of them.     *)

ModelCoords == {<<0, 0>>, <<1, 0>>}

\* what get_brush returns: neither tag, one tag, both tags
ModelBrushes ==
  {Tag(NoTag, NoTag), Tag("pB", NoTag), Tag(NoTag, "b2"), Tag("pB", "b2")}

\* the brush a Model is constructed with
DefaultBrushes == {Tag(NoTag, NoTag), Tag("pA", "b1")}

MaxList == 2
ListEntries ==
  {[grid_coord |-> gc, ps |-> t.ps, bs |-> t.bs] :
     gc \in ModelCoords, t \in {Tag("pA", "b1"), Tag("pB", "b2")}}
\* the particle lists handed to set_particles and set_particles_paste
ParticleLists == UNION {[1 .. n -> ListEntries] : n \in 0 .. MaxList}

lvars == <<heap, share, layers, dead, evq, idle, exc, calls, nextUid, clip,
           nInputs, sstart, soffset, gvars, ivars, evars>>

Cv ==
  [default_brush |-> default_brush, oval_id_to_particle |-> oval_id_to_particle,
   grid_coord_to_particle |-> grid_coord_to_particle,
   model_particles |-> model_particles, selected_particles |-> selected_particles,
   sized |-> sized, raised |-> NoExc]

CvCommit(c) ==
  /\ default_brush' = c.default_brush
  /\ oval_id_to_particle' = c.oval_id_to_particle
  /\ grid_coord_to_particle' = c.grid_coord_to_particle
  /\ model_particles' = c.model_particles
  /\ selected_particles' = c.selected_particles
  /\ sized' = c.sized
  /\ raised' = c.raised
  /\ UNCHANGED lvars

\* Model.add_new_particle
add_new_particle(c, grid_coord) ==
  LET oval_id == Len(c.oval_id_to_particle) + 1 IN
  [c EXCEPT !.oval_id_to_particle =
              Append(@, [grid_coord |-> grid_coord, present |-> FALSE,
                         ps |-> c.default_brush.ps, bs |-> c.default_brush.bs]),
            !.grid_coord_to_particle = @ @@ (grid_coord :> oval_id)]

RECURSIVE draw_new_particles(_, _)
\* Model.draw_new_particles over the grid points
draw_new_particles(c, points) ==
  IF points = {} THEN c
  ELSE LET grid_coord == CHOOSE x \in points : TRUE
       IN draw_new_particles(
            IF grid_coord \notin DOMAIN c.grid_coord_to_particle
            THEN add_new_particle(c, grid_coord) ELSE c,
            points \ {grid_coord})

\* SquareGrid.calc_bounding_box and points_iterator(box)
box_points(points) ==
  {gc \in (SetMin({p[1] : p \in points}) .. SetMax({p[1] : p \in points}))
            \X (SetMin({p[2] : p \in points}) .. SetMax({p[2] : p \in points})) : TRUE}

\* Model.update_grid_size: once the host has given the window its size the
\* grid covers the window and the bounding box of the model, and their
\* particles are drawn
update_grid_size(c) ==
  LET model_points == {c.oval_id_to_particle[p].grid_coord : p \in c.model_particles}
  IN IF c.sized THEN draw_new_particles(c, box_points(ModelCoords \cup model_points))
     ELSE c

RECURSIVE model_brush_each(_, _, _)
\* the loop of Model.apply_brush
model_brush_each(c, brush, particles) ==
  IF particles = {} THEN c
  ELSE
    LET p == CHOOSE x \in particles : TRUE
        erase == brush.ps = NoTag /\ brush.bs = NoTag
        c1 ==
          IF erase /\ p \in c.model_particles
          THEN [c EXCEPT !.oval_id_to_particle[p] =
                           [@ EXCEPT !.present = FALSE,
                                     !.ps = c.default_brush.ps,
                                     !.bs = c.default_brush.bs],
                         !.model_particles = @ \ {p}]
          ELSE IF ~erase
          THEN [c EXCEPT !.oval_id_to_particle[p] =
                           [@ EXCEPT !.present = TRUE,
                                     !.ps = IF brush.ps # NoTag THEN brush.ps ELSE @,
                                     !.bs = IF brush.bs # NoTag THEN brush.bs ELSE @],
                         !.model_particles = @ \cup {p}]
          ELSE c
    IN model_brush_each(c1, brush, particles \ {p})

\* Model.apply_brush(brush, self.selected_particles)
model_apply_brush(c, brush, particles) == model_brush_each(c, brush, particles)

\* Model.apply_brush(self.default_brush, self.model_particles): the loop runs
\* over the very set it removes from, and the set's iterator raises
\* RuntimeError at the step after a removal; first is the particle it yields
\* first
apply_default_brush(c, first) ==
  IF c.default_brush.ps = NoTag /\ c.default_brush.bs = NoTag
     /\ c.model_particles # {}
  THEN [model_brush_each(c, c.default_brush, {first})
          EXCEPT !.raised = "RuntimeError"]
  ELSE model_brush_each(c, c.default_brush, c.model_particles)

\* an element of a particle list: a particle of its own, or (ref) a particle
\* of the canvas, whose attributes are read when the loop comes to it
ParticleOf(c, e) ==
  IF "ref" \in DOMAIN e THEN c.oval_id_to_particle[e.ref] ELSE e

RECURSIVE set_each(_, _)
\* the loop of Model.set_particles over the new particles
set_each(c, particles) ==
  IF particles = <<>> THEN c
  ELSE
    LET new_p == ParticleOf(c, Head(particles))
        c1 == IF new_p.grid_coord \notin DOMAIN c.grid_coord_to_particle
              THEN add_new_particle(c, new_p.grid_coord) ELSE c
        old_p == c1.grid_coord_to_particle[new_p.grid_coord]
    IN set_each([c1 EXCEPT !.oval_id_to_particle[old_p] =
                             [@ EXCEPT !.ps = new_p.ps, !.bs = new_p.bs,
                                       !.present = TRUE],
                           !.model_particles = @ \cup {old_p}],
                Tail(particles))

\* for p in self.model_particles: p.present = False
mark_absent(c) ==
  [c EXCEPT !.oval_id_to_particle =
     [id \in DOMAIN c.oval_id_to_particle |->
        IF id \in c.model_particles
        THEN [c.oval_id_to_particle[id] EXCEPT !.present = FALSE]
        ELSE c.oval_id_to_particle[id]]]

\* Model.set_particles without the statement that marks the old particles absent
canvas_set_particles_keep_present(c, particles, first) ==
  LET c1 == apply_default_brush(c, first) IN
  IF c1.raised # NoExc THEN c1
  ELSE update_grid_size(
         set_each([c1 EXCEPT !.model_particles = {}, !.selected_particles = {}],
                  particles))

\* Model.set_particles
canvas_set_particles(c, particles, first) ==
  LET c1 == apply_default_brush(c, first) IN
  IF c1.raised # NoExc THEN c1
  ELSE update_grid_size(
         set_each([mark_absent(c1) EXCEPT !.model_particles = {},
                                          !.selected_particles = {}],
                  particles))

\* Model.set_particles_paste: the statements of set_particles once more
canvas_set_particles_paste(c, particles, first) ==
  LET c1 == apply_default_brush(c, first) IN
  IF c1.raised # NoExc THEN c1
  ELSE update_grid_size(
         set_each([mark_absent(c1) EXCEPT !.model_particles = {},
                                          !.selected_particles = {}],
                  particles))

\* Model.handle_left_click
handle_left_click(c, particle, brush) ==
  LET c1 == IF particle \notin c.selected_particles
            THEN [c EXCEPT !.selected_particles = {particle}] ELSE c
  IN update_grid_size(model_apply_brush(c1, brush, c1.selected_particles))

\* Model.buddy_finder
buddy_finder(c, particle) ==
  {ite \in c.model_particles :
     c.oval_id_to_particle[ite].bs = c.oval_id_to_particle[particle].bs}

\* Model.handle_right_click
handle_right_click(c, particle, modifier) ==
  CASE modifier = "shift" ->
         IF particle \in c.selected_particles THEN c
         ELSE [c EXCEPT !.selected_particles =
                 {c.grid_coord_to_particle[gc] :
                    gc \in box_points({c.oval_id_to_particle[p].grid_coord :
                                         p \in c.selected_particles \cup {particle}})}]
    [] modifier = "ctrl" ->
         [c EXCEPT !.selected_particles =
            IF particle \in @ THEN @ \ {particle} ELSE @ \cup {particle}]
    [] modifier = "leftalt" ->
         [c EXCEPT !.selected_particles = @ \cup buddy_finder(c, particle)]
    [] OTHER -> [c EXCEPT !.selected_particles = {particle}]

\* Model.__init__ with a default brush; nothing is drawn before the window
\* has its size
InitCanvasModel ==
  /\ InitLayers(Init0("View"))
  /\ \E b \in DefaultBrushes : InitCanvas(b)
  /\ NoGridCall /\ NoImport /\ NoEvents

\* <Configure>: Model.handle_resize
HandleResize ==
  /\ lastop' = [name |-> "resize"]
  /\ CvCommit(update_grid_size([Cv EXCEPT !.sized = TRUE]))

\* <Button-1> on the oval of a particle, with the brush of get_brush()
HandleLeftClick ==
  \E particle \in DOMAIN oval_id_to_particle, brush \in ModelBrushes :
    /\ lastop' = [name |-> "left_click", particle |-> particle, brush |-> brush]
    /\ CvCommit(handle_left_click(Cv, particle, brush))

\* <Button-2> on the oval of a particle, plain or with Shift, Ctrl or Alt
HandleRightClick ==
  \E particle \in DOMAIN oval_id_to_particle,
     modifier \in {"none", "shift", "ctrl", "leftalt"} :
    /\ lastop' = [name |-> "right_click", particle |-> particle]
    /\ CvCommit(handle_right_click(Cv, particle, modifier))

\* canvas_set_particles(particles), as rbd_io calls it on loading a design
SetParticles ==
  \E particles \in ParticleLists, first \in model_particles \cup {0} :
    /\ first = 0 <=> model_particles = {}
    /\ lastop' = [name |-> "set_particles", particles |-> particles]
    /\ CvCommit(canvas_set_particles(Cv, particles, first))

\* canvas_set_particles_paste(particles), as the operations call it
SetParticlesPaste ==
  \E particles \in ParticleLists, first \in model_particles \cup {0} :
    /\ first = 0 <=> model_particles = {}
    /\ lastop' = [name |-> "set_particles_paste", particles |-> particles]
    /\ CvCommit(canvas_set_particles_paste(Cv, particles, first))

NextCanvasModel ==
  \/ HandleResize \/ HandleLeftClick \/ HandleRightClick
  \/ SetParticles \/ SetParticlesPaste

SpecCanvasModel == InitCanvasModel /\ [][NextCanvasModel]_vars
\* the particle the model holds at a coordinate, if any
OccupiedAt(gc) == {p \in model_particles : oval_id_to_particle[p].grid_coord = gc}

\* C15: after every sequence of paint, selection and bulk-replace operations
\* on the canvas Model a particle is in model_particles iff its present flag
\* is set, a coordinate is occupied iff the particle the model returns for it
\* is present, and no two particles of the model share a coordinate
OccupancyConsistent ==
  /\ \A p \in DOMAIN oval_id_to_particle :
       p \in model_particles <=> oval_id_to_particle[p].present
  /\ \A gc \in ModelCoords :
       OccupiedAt(gc) # {} <=>
         (gc \in DOMAIN grid_coord_to_particle
            /\ oval_id_to_particle[grid_coord_to_particle[gc]].present)
  /\ \A gc \in ModelCoords : Cardinality(OccupiedAt(gc)) <= 1

\* a bulk replace has dropped a particle of a model with a creating default brush
OccupancyConsistent_Witness ==
  /\ lastop.name = "set_particles" /\ raised = NoExc
  /\ default_brush.ps # NoTag
  /\ model_particles # {}
  /\ \E p \in DOMAIN oval_id_to_particle :
       p \notin model_particles /\ oval_id_to_particle[p].ps = default_brush.ps

\* the last entry of a particle list for a coordinate
LastEntry(particles, gc) ==
  particles[SetMax({i \in 1 .. Len(particles) : particles[i].grid_coord = gc})]

\* C16: a bulk replace (set_particles, set_particles_paste) with the list P
\* completes whatever the model held and whatever its default brush is, and
\* leaves exactly one particle at every coordinate of P, with the tags of the
\* last entry of P for it, no particle elsewhere, and an empty selection
BulkReplaceCompletes ==
  lastop.name \in {"set_particles", "set_particles_paste"} =>
    /\ raised = NoExc
    /\ selected_particles = {}
    /\ \A gc \in ModelCoords :
         IF \E i \in 1 .. Len(lastop.particles) : lastop.particles[i].grid_coord = gc
         THEN /\ Cardinality(OccupiedAt(gc)) = 1
              /\ \A p \in OccupiedAt(gc) :
                   Tags(oval_id_to_particle[p]) = Tags(LastEntry(lastop.particles, gc))
         ELSE OccupiedAt(gc) = {}

\* C17: a brush with neither tag removes the selected particles, a brush with
\* both tags leaves a particle with both tags at every selected coordinate,
\* and a brush with one tag changes that tag of the selected particles of the
\* model only and leaves an unoccupied coordinate unoccupied
BrushSemantics ==
  [][lastop'.name = "left_click" =>
       \A p \in selected_particles' :
         LET b == lastop'.brush
             old == oval_id_to_particle[p]
             new == oval_id_to_particle'[p]
         IN IF b.ps = NoTag /\ b.bs = NoTag THEN p \notin model_particles'
            ELSE IF b.ps # NoTag /\ b.bs # NoTag
            THEN p \in model_particles' /\ Tags(new) = b
            ELSE IF p \in model_particles
            THEN /\ p \in model_particles'
                 /\ new.ps = (IF b.ps # NoTag THEN b.ps ELSE old.ps)
                 /\ new.bs = (IF b.bs # NoTag THEN b.bs ELSE old.bs)
            ELSE p \notin model_particles']_vars
\* what a brush of Brushes leaves at a painted coordinate of the model m
Painted(brush, m, gc) ==
  IF brush = NoBrush THEN <<m, "m", gc>> \notin DOMAIN heap'
  ELSE <<m, "m", gc>> \in DOMAIN heap' /\ Tags(heap'[<<m, "m", gc>>]) = brush

\* C18: a paint event at a visible coordinate C of a layer makes {C} the
\* selection unless C's particle is selected already, applies the brush to
\* every selected coordinate and queues exactly one notification, whose dirty
\* set is the selected coordinates; a paint event at a hidden coordinate
\* changes nothing
PaintSelectsAndNotifies ==
  [][\A i \in 1 .. Len(calls'), h \in 1 .. Len(layers) :
       (calls'[i][1] = "paint" /\ layers[h].uid = calls'[i][2]
          /\ layers[h].model # NoModel) =>
         LET gc == calls'[i][3]
             l == layers[h]
         IN IF point_hidden(l, gc)
            THEN heap' = heap /\ layers' = layers /\ evq' = evq /\ idle' = idle
            ELSE /\ exc' = NoExc
                 /\ Len(layers') = Len(layers)
                 /\ layers'[h].selected =
                      (IF particle_selected(l, <<"d", gc>>) THEN l.selected
                       ELSE {<<"d", gc>>})
                 /\ \A dp \in layers'[h].selected :
                      Painted(l.brush, l.model, dp_gridcoord(l, dp))
                 /\ evq' = << [model |-> l.model,
                               dirty |-> {dp_gridcoord(l, dp) :
                                            dp \in layers'[h].selected}] >>]_vars

\* the creating brush has been painted over a selection of two coordinates
PaintSelectsAndNotifies_Witness ==
  /\ exc = NoExc /\ Len(evq) = 1
  /\ \E i \in 1 .. Len(calls) : calls[i][1] = "paint"
  /\ Cardinality(TopLayer.selected) = 2
  /\ TopLayer.brush # NoBrush
  /\ Cardinality(evq[1].dirty) = 2
\* C19: painting is null-safe: whatever paint events (erase, create, modify)
\* and idle redraws came before, a paint event in a layer that has a model
\* never raises for reading the tags of an absent particle
PaintNullSafe ==
  \A i \in 1 .. Len(calls), h \in 1 .. Len(layers) :
    (calls[i][1] = "paint" /\ layers[h].uid = calls[i][2]
       /\ layers[h].model # NoModel) => exc # "AttributeError"
----------------------------------------------------------------------------
(* The selection interface of a SelectLayer: new_selection (replace and     *)
(* append), remove_selection and toggle_selection called on a started layer *)
(* over a design, with redraws in between                                   *)

\* toggle_selection without the statement that unselects
toggle_selection_add_only(s, h, dps) ==
  LET l == L(s, h)
      add == {dp \in dps : ~particle_selected(l, dp)}
  IN set_selected(s, h, l.selected \cup add)

\* SelectLayer.toggle_selection
toggle_selection(s, h, dps) ==
  LET l == L(s, h)
      remove == {dp \in dps : particle_selected(l, dp)}
      add == {dp \in dps : ~particle_selected(l, dp)}
      s1 == set_selected(s, h, l.selected \ remove)
  IN set_selected(s1, h, L(s1, h).selected \cup add)

\* the drawn particles a caller can pass
DrawnSets == SUBSET {<<"d", gc>> : gc \in Universe}

InitSelect ==
  \E type \in {"EditBackground", "EditBasic"}, content \in InitModels :
    InitFrom(set_model(load_model(start(Init0(type), 1), DesignModel, content),
                       1, DesignModel))

SelCall(what, dps) == ApiCall /\ calls' = <<<<what, dps>>>>

SelReplace ==
  \E dps \in DrawnSets :
    SelCall("replace", dps)
      /\ Commit([new_selection(St, 1, dps, FALSE) EXCEPT !.calls = calls'])

SelAppend ==
  \E dps \in DrawnSets :
    SelCall("append", dps)
      /\ Commit([new_selection(St, 1, dps, TRUE) EXCEPT !.calls = calls'])

SelRemove ==
  \E dps \in DrawnSets :
    SelCall("remove", dps)
      /\ Commit([remove_selection(St, 1, dps) EXCEPT !.calls = calls'])

SelToggle ==
  \E dps \in DrawnSets :
    SelCall("toggle", dps)
      /\ Commit([toggle_selection(St, 1, dps) EXCEPT !.calls = calls'])

\* the redraw of the layer at an idle point
SelUpdate ==
  /\ layers[1].dirty # {}
  /\ Commit(update(St, 1))
  /\ UNCHANGED <<nInputs, sstart, soffset, mvars, gvars, ivars, evars>>

\* <ButtonPress-2> with any of the modifiers on the layer
SelRightPress ==
  \E gc \in Universe, shift \in BOOLEAN, ctrl \in BOOLEAN :
    ApiCall /\ Commit(handle_rightpress(St, 1, gc, shift, ctrl))

NextSelect ==
  \/ SelReplace \/ SelAppend \/ SelRemove \/ SelToggle \/ SelUpdate
  \/ SelRightPress

SpecSelect == InitSelect /\ [][NextSelect]_vars

SymDiff(a, b) == (a \ b) \cup (b \ a)

\* the selection a call asks for
AskedSelection(call, old) ==
  CASE call[1] = "replace" -> call[2]
    [] call[1] = "append" -> old \cup call[2]
    [] call[1] = "remove" -> old \ call[2]
    [] call[1] = "toggle" -> SymDiff(old, call[2])

BoxAround(gcs) ==
  {gc \in (SetMin({p[1] : p \in gcs}) .. SetMax({p[1] : p \in gcs}))
           \X (SetMin({p[2] : p \in gcs}) .. SetMax({p[2] : p \in gcs})) : TRUE}

\* C21: a shift-right-click at a visible coordinate C of a layer sets the
\* selection to the particles at all coordinates of the smallest box around
\* the coordinates of the previous selection and C; the new selection holds
\* the previous selection and C's particle, and the same click once more
\* would leave it as it is
ShiftClickSelectsBox ==
  [][\A i \in 1 .. Len(calls'), h \in 1 .. Len(layers) :
       (calls'[i][1] = "rightpress" /\ calls'[i][4] /\ ~calls'[i][5]
          /\ layers[h].uid = calls'[i][2] /\ layers[h].model # NoModel
          /\ ~point_hidden(layers[h], calls'[i][3])) =>
         LET gc == calls'[i][3]
             l == layers[h]
             new == layers'[h].selected
             box == BoxAround({dp_gridcoord(l, dp) : dp \in l.selected} \cup {gc})
         IN /\ exc' = NoExc
            /\ {dp_gridcoord(layers'[h], dp) : dp \in new} = box
            /\ l.selected \cup {<<"d", gc>>} \subseteq new
            /\ BoxAround({dp_gridcoord(layers'[h], dp) : dp \in new}) = box]_vars
\* the coordinates of the model m whose particle has the body tag of the one at gc
BodyOf(m, gc) ==
  {x \in ModelOcc(Cur, m) : heap[MSlot(m, x)].bs = heap[MSlot(m, gc)].bs}

\* C22: a right-click with the body-select modifier at a visible coordinate C
\* that holds a particle sets the selection to all coordinates of the model
\* whose body tag is the one of C's particle; with shift held as well they
\* are added to the previous selection
BodyClickSelectsBody ==
  [][\A i \in 1 .. Len(calls') :
       (calls'[i][1] = "rightpress" /\ calls'[i][5]
          /\ ~point_hidden(layers[1], calls'[i][3])
          /\ has_particle(Cur, layers[1].model, calls'[i][3])) =>
         LET body == {<<"d", x>> : x \in BodyOf(layers[1].model, calls'[i][3])}
         IN /\ exc' = NoExc
            /\ layers'[1].selected =
                 (IF calls'[i][4] THEN layers[1].selected \cup body ELSE body)]_vars
\* C23: toggle_selection(X) selects every particle of X that is not selected,
\* unselects every particle of X that is selected and leaves the selection
\* of every other particle as it is; toggling the same X twice gives the
\* selection back
ToggleIsInvolution ==
  \A X \in DrawnSets :
    LET s1 == toggle_selection(St, 1, X)
        s2 == toggle_selection(s1, 1, X)
    IN /\ \A dp \in X : particle_selected(L(s1, 1), dp) <=> ~particle_selected(layers[1], dp)
       /\ L(s1, 1).selected \ X = layers[1].selected \ X
       /\ L(s2, 1).selected = layers[1].selected

\* a toggle has unselected one particle while another one stayed selected
ToggleIsInvolution_Witness ==
  /\ calls # <<>> /\ calls[1][1] = "toggle"
  /\ Cardinality(calls[1][2]) = 1
  /\ calls[1][2] \cap layers[1].selected = {}
  /\ layers[1].selected # {}
  /\ calls[1][2] \subseteq layers[1].dirty
\* the last handler started a RotateLayer, which is the top layer
RotateStarted ==
  Len(layers) > 1 /\ TopLayer.type = "Rotate" /\ WasCalled("start", TopLayer.uid)

\* the image of a coordinate under the rotation of the top layer
Rotated(gc) == rotate_gridcoord(gc, RotateCenter(TopLayer.initPoints), TopLayer.steps)

\* C24: when RotateLayer.start() returns the rotation is done: the layer's
\* points are the images of the operated coordinates, every image holds the
\* tags of its preimage (nothing where the preimage was blank), the model
\* holds nothing elsewhere and as many particles as before, and the images
\* of the coordinates selected before the rotation are the selection
RotateRestages ==
  RotateStarted =>
    /\ exc = NoExc
    /\ TopLayer.points = {Rotated(gc) : gc \in TopLayer.initPoints}
    /\ DOMAIN ModelVal(Cur, TopLayer.model) = {Rotated(gc) : gc \in DOMAIN TopLayer.snap}
    /\ \A gc \in DOMAIN TopLayer.snap :
         Rotated(gc) \in DOMAIN ModelVal(Cur, TopLayer.model)
           /\ ModelVal(Cur, TopLayer.model)[Rotated(gc)] = TopLayer.snap[gc]
    /\ Cardinality(DOMAIN ModelVal(Cur, TopLayer.model))
         = Cardinality(DOMAIN TopLayer.snap)
    /\ {dp_gridcoord(TopLayer, dp) : dp \in TopLayer.selected}
         = {Rotated(gc) : gc \in TopLayer.initPoints}

\* the last handler popped a PasteLayer
DeadPaste == dead.uid # 0 /\ dead.type = "Paste"

\* C25: a PasteLayer always reports an empty start-coordinate set, whatever
\* happened inside it: merging it leaves every particle of the parent outside
\* the paste layer's finish coordinates as it was before the paste started, and
\* cancelling it leaves the parent's model unchanged.
PasteVacatesNothing ==
  /\ \A h \in Handles : layers[h].type = "Paste" => start_coordinates(layers[h]) = {}
  /\ DeadPaste => start_coordinates(dead) = {}
  /\ (DeadPaste /\ JustMerged /\ exc = NoExc) =>
       \A gc \in DOMAIN dead.psnap.model \ finish_coordinates(dead) :
         TagsAt(TopLayer.model, gc) = dead.psnap.model[gc]
  /\ (DeadPaste /\ JustCancelled /\ Len(layers) > 0) =>
       ModelVal(Cur, TopLayer.model) = dead.psnap.model

PasteVacatesNothing_Witness ==
  /\ DeadPaste /\ JustMerged /\ exc = NoExc
  /\ dead.initPoints # {}
  /\ ModelVal(Cur, dead.model) # dead.snap
  /\ DOMAIN dead.psnap.model \ finish_coordinates(dead) # {}

----------------------------------------------------------------------------
(* The SquareGrid of src/grid.py on its own: the arguments are drawn by the *)
(* initial state and every step is one call.                                *)

MaxGridCalls == 2

GridDiameters == {3, Diameter}
GridPixels == (-MaxPix .. MaxPix) \X {-5, 5}
GridCoords == (-2 .. 2) \X (-1 .. 1)
GridCoordSets == SUBSET {<<-2, 0>>, <<0, 0>>, <<1, -1>>, <<1, 1>>}
GridPaddings == 0 .. 2

InitGridCalls ==
  /\ InitLayers(Init0("View")) /\ InitCanvas(Tag(NoTag, NoTag)) /\ NoImport
  /\ NoEvents
  /\ \/ \E d \in GridDiameters, pixel \in GridPixels :
          InitGrid(d, pixel, <<0, 0>>, {}, 0)
     \/ \E d \in GridDiameters, coord \in GridCoords :
          InitGrid(d, <<0, 0>>, coord, {}, 0)
     \/ \E gcs \in GridCoordSets, padding \in GridPaddings :
          InitGrid(Diameter, <<0, 0>>, <<0, 0>>, gcs, padding)

GridCall(name) ==
  /\ Len(grid_op) < MaxGridCalls
  /\ grid_op' = Append(grid_op, name)
  /\ UNCHANGED <<heap, share, layers, dead, evq, idle, exc, calls, nextUid, clip,
                 nInputs, sstart, soffset, mvars, ivars, evars, cell_diameter,
                 grid_coords, grid_padding>>

GridcoordToPixel ==
  /\ GridCall("gridcoord_to_pixel")
  /\ grid_pixel' = gridcoord_to_pixel(grid_gc, cell_diameter)
  /\ UNCHANGED <<grid_gc, grid_box, grid_points>>

PixelToGridcoord ==
  /\ GridCall("pixel_to_gridcoord")
  /\ grid_gc' = pixel_to_gridcoord(grid_pixel, cell_diameter)
  /\ UNCHANGED <<grid_pixel, grid_box, grid_points>>

CalcBbox ==
  /\ GridCall("calc_bbox")
  /\ grid_box' = calc_bbox(grid_coords, grid_padding)
  /\ UNCHANGED <<grid_pixel, grid_gc, grid_points>>

\* points_iterator over a box that calc_bbox returned
PointsIterator ==
  /\ grid_box # <<>>
  /\ GridCall("points_iterator")
  /\ grid_points' = grid_points_iterator(grid_box)
  /\ UNCHANGED <<grid_pixel, grid_gc, grid_box>>

NextGrid == GridcoordToPixel \/ PixelToGridcoord \/ CalcBbox \/ PointsIterator

SpecGrid == InitGridCalls /\ [][NextGrid]_vars

LastGridCall == IF grid_op = <<>> THEN "none" ELSE grid_op[Len(grid_op)]

PixelInsideItsCell ==
  (LastGridCall = "pixel_to_gridcoord") =>
    \A i \in {1, 2} :
      /\ grid_gc[i] = grid_pixel[i] \div cell_diameter
      /\ grid_gc[i] * cell_diameter <= grid_pixel[i]
      /\ grid_pixel[i] < grid_gc[i] * cell_diameter + cell_diameter

\* C28: calc_bbox(coords, padding) returns None iff coords is empty; otherwise
\* the box starts padding below the least coordinate and ends padding + 1
\* above the greatest one on each axis, so that it holds every given
\* coordinate, and points_iterator enumerates exactly the coordinates inside
\* the half-open box.
BboxEncloses ==
  /\ ("calc_bbox" \in {grid_op[i] : i \in DOMAIN grid_op}) =>
       /\ grid_box = <<>> <=> grid_coords = {}
       /\ grid_coords # {} =>
            /\ \A i \in {1, 2} :
                 /\ \A gc \in grid_coords :
                      /\ grid_box[i] + grid_padding <= gc[i]
                      /\ gc[i] <= grid_box[i + 2] - grid_padding - 1
                 /\ \E gc \in grid_coords : gc[i] = grid_box[i] + grid_padding
                 /\ \E gc \in grid_coords : gc[i] = grid_box[i + 2] - grid_padding - 1
            /\ \A gc \in grid_coords : gridcoord_in_bbox(gc, grid_box)
  /\ (LastGridCall = "points_iterator") =>
       /\ \A gc \in grid_points : gridcoord_in_bbox(gc, grid_box)
       /\ \A gc \in (-5 .. 5) \X (-5 .. 5) :
            gridcoord_in_bbox(gc, grid_box) => gc \in grid_points

BboxEncloses_Witness ==
  /\ grid_op = <<"calc_bbox", "points_iterator">>
  /\ Cardinality(grid_coords) >= 2 /\ grid_padding > 0
  /\ \E gc \in grid_points : gc \notin grid_coords
  /\ \E gc \in grid_coords : gc[1] < 0

\* the runs of update() of the layer u in the last handler
UpdateRuns(u) == Cardinality({i \in DOMAIN calls : calls[i] = <<"update", u>>})

----------------------------------------------------------------------------
(* src/rbd_io.py : import_rbd.  A file is the sequence of the start tags    *)
(* that the parser hands to process_node_start.                             *)

GRID_SQUARE == 0
GRID_HEX_HORIZ == 1

MaxNodes == 4

Node(tag, name, index, grid_type, ok) ==
  [tag |-> tag, name |-> name, index |-> index, grid_type |-> grid_type, ok |-> ok]

\* <particle_specs name>, <body_specs index>, <model grid_type> and
\* <particle grid_coord particle_specs body_specs>; ok tells whether
\* eval(grid_coord) succeeds
FileNodes ==
  {Node("particle_specs", "pA", "0", GRID_SQUARE, TRUE),
   Node("body_specs", "pA", "0", GRID_SQUARE, TRUE)}
  \cup {Node("model", "pA", "0", g, TRUE) : g \in {GRID_SQUARE, GRID_HEX_HORIZ}}
  \cup {Node("particle", "pA", "0", GRID_SQUARE, ok) : ok \in BOOLEAN}
  \cup {Node("particle", "pB", "0", GRID_SQUARE, TRUE),
        Node("particle", "pA", "1", GRID_SQUARE, TRUE)}

Files == UNION {[1 .. n -> FileNodes] : n \in 0 .. MaxNodes}

\* the object handed to import_rbd: the Application of src/rbd.py has no
\* attribute options_box, the OptionsBox of src/options_box.py has no method
\* get_default_brush, and an object that has both
RbdKinds == {"Application", "OptionsBox", "complete"}

\* the lists and dictionaries that import_rbd fills while it parses
NoData ==
  [model_data |-> <<>>, model_particles |-> <<>>, particle_specs |-> <<>>,
   body_specs |-> <<>>, particle_specs_dict |-> {}, body_specs_dict |-> {},
   raised |-> NoExc]

\* process_node_start(name, attr)
process_node_start(acc, node) ==
  IF node.tag = "particle_specs"
  THEN [acc EXCEPT !.particle_specs = Append(@, node.name),
                   !.particle_specs_dict = @ \cup {node.name}]
  ELSE IF node.tag = "body_specs"
  THEN [acc EXCEPT !.body_specs = Append(@, node.index),
                   !.body_specs_dict = @ \cup {node.index}]
  ELSE IF node.tag = "model"
  THEN [acc EXCEPT !.model_data = Append(@, node.grid_type),
                   !.model_particles = Append(@, <<>>)]
  ELSE IF ~node.ok THEN [acc EXCEPT !.raised = "SyntaxError"]
  ELSE IF node.name \notin acc.particle_specs_dict
            \/ node.index \notin acc.body_specs_dict
  THEN [acc EXCEPT !.raised = "KeyError"]
  ELSE IF acc.model_particles = <<>> THEN [acc EXCEPT !.raised = "IndexError"]
  ELSE [acc EXCEPT !.model_particles[Len(acc.model_particles)] =
                     Append(@, [grid_coord |-> <<0, 0>>, ps |-> node.name,
                                bs |-> node.index])]

RECURSIVE ParseFile(_, _)
\* p.ParseFile: the handler runs on every start tag until one call raises
ParseFile(acc, file) ==
  IF file = <<>> \/ acc.raised # NoExc THEN acc
  ELSE ParseFile(process_node_start(acc, Head(file)), Tail(file))

\* ButtonList.set_objects: the list grows to the length of the new one and its
\* first entries take the attributes of the new objects
set_objects(objects, objs) ==
  [i \in 1 .. (IF Len(objs) > Len(objects) THEN Len(objs) ELSE Len(objects)) |->
     IF i <= Len(objs) THEN objs[i] ELSE objects[i]]

\* Model(design_box, get_brush, default_brush, grid_type) and set_particles
\* on it, by value
new_model(grid_type, particles) ==
  LET c == canvas_set_particles(
             [default_brush |-> Tag(NoTag, NoTag), oval_id_to_particle |-> <<>>,
              grid_coord_to_particle |-> <<>>, model_particles |-> {},
              selected_particles |-> {}, sized |-> FALSE, raised |-> NoExc],
             particles, 0)
  IN [grid_type |-> grid_type,
      particles |-> {[grid_coord |-> c.oval_id_to_particle[id].grid_coord,
                      ps |-> c.oval_id_to_particle[id].ps,
                      bs |-> c.oval_id_to_particle[id].bs] : id \in c.model_particles}]

RECURSIVE make_models(_, _, _)
\* the loop of import_rbd over zip(model_data, model_particles); a has the
\* application's fields and the models built so far
make_models(a, kind, acc) ==
  IF acc.model_data = <<>> \/ a.raised # NoExc THEN a
  ELSE IF kind = "OptionsBox" THEN [a EXCEPT !.raised = "AttributeError"]
  ELSE IF Head(acc.model_data) # GRID_SQUARE THEN [a EXCEPT !.raised = "AssertionError"]
  ELSE make_models(
         [a EXCEPT !.models = Append(@, new_model(Head(acc.model_data),
                                                  Head(acc.model_particles)))],
         kind,
         [acc EXCEPT !.model_data = Tail(@), !.model_particles = Tail(@)])

\* ModelsList.set_models: handle_click(object(), 0) indexes the new list
set_models(a) ==
  IF a.models = <<>> THEN [a EXCEPT !.models_list = <<>>, !.raised = "IndexError"]
  ELSE [a EXCEPT !.models_list = a.models]

\* import_rbd(path, rbd)
import_rbd(a0, kind, file) ==
  LET acc == ParseFile(NoData, file)
      a1 == [a0 EXCEPT
               !.tool_particle_specs = set_objects(@, acc.particle_specs),
               !.tool_body_specs = set_objects(@, acc.body_specs)]
      a2 == make_models(a1, kind, acc)
  IN IF kind = "Application" THEN [a0 EXCEPT !.raised = "AttributeError"]
     ELSE IF acc.raised # NoExc THEN [a0 EXCEPT !.raised = acc.raised]
     ELSE IF a2.raised # NoExc THEN a2
     ELSE set_models(a2)

InitImport ==
  /\ InitLayers(Init0("View")) /\ InitCanvas(Tag(NoTag, NoTag)) /\ NoGridCall
  /\ NoEvents
  /\ \E kind \in RbdKinds, file \in Files : InitApp(kind, file)

\* the Import button: Application.import_data
ImportData ==
  LET a == import_rbd([tool_particle_specs |-> tool_particle_specs,
                       tool_body_specs |-> tool_body_specs,
                       models_list |-> models_list, models |-> <<>>,
                       raised |-> NoExc], rbd_kind, rbd_file)
  IN /\ nInputs = 0 /\ nInputs' = 1
     /\ tool_particle_specs' = a.tool_particle_specs
     /\ tool_body_specs' = a.tool_body_specs
     /\ models_list' = a.models_list
     /\ import_raised' = a.raised
     /\ UNCHANGED <<heap, share, layers, dead, evq, idle, exc, calls, nextUid, clip,
                    sstart, soffset, mvars, gvars, evars, rbd_kind,
                    rbd_file>>

NextImport == ImportData

SpecImport == InitImport /\ [][NextImport]_vars

\* a file with an unparsable coordinate, a reference to an unknown particle
\* or body spec, or an unsupported grid type
Malformed(file) ==
  \/ ParseFile(NoData, file).raised \in {"SyntaxError", "KeyError"}
  \/ \E i \in DOMAIN file : file[i].tag = "model" /\ file[i].grid_type # GRID_SQUARE

\* C30: import is all-or-nothing: if the imported file is malformed, import_rbd
\* fails as a whole and the application's particle specs, body specs and
\* model list are left exactly as they were before the import.
ImportAllOrNothing ==
  [][(nInputs' = 1 /\ Malformed(rbd_file)) =>
       /\ import_raised' # NoExc
       /\ UNCHANGED <<tool_particle_specs, tool_body_specs, models_list>>]_vars

\* this step is the button release handled by the MoveLayer h
ReleaseStep(h) ==
  /\ RunBound(h) /\ IsMove(h)
  /\ \E shift \in BOOLEAN : Handled(handle_release(St, h, shift))

\* the handler of this step made the call
CalledNext(what, uid) == \E i \in 1 .. Len(calls') : calls'[i] = <<what, uid>>

\* C31: on button release in a MoveLayer, an accumulated drag offset of
\* exactly (0,0) cancels the layer and leaves the parent's model, points and
\* selection unchanged; any other offset merges the layer.  Exactly one of
\* the two happens per release.
ReleaseCancelsOrMerges ==
  [][\A h \in Handles :
       LET l == layers[h]
           u == l.uid
       IN ReleaseStep(h) =>
            /\ dead'.uid = u /\ Len(layers') = Len(layers) - 1
            /\ CalledNext("cancel", u) # CalledNext("finish", u)
            /\ CalledNext("cancel", u) <=> l.offset = <<0, 0>>
            /\ CalledNext("finish", u) <=> WasCalled("merge", TopLayer.uid)'
            /\ l.offset = <<0, 0>> =>
                 /\ exc' = NoExc
                 /\ LayerView(Cur, TopLayer)' = LayerView(Cur, layers[h - 1])]_vars

ReleaseCancelsOrMerges_Witness ==
  /\ dead.uid # 0 /\ dead.type = "Move" /\ exc = NoExc
  /\ dead.offset = <<0, 0>> /\ WasCalled("cancel", dead.uid)
  /\ dead.psnap.selected # {} /\ dead.psnap.model # <<>>

ReleaseMerges_Witness ==
  /\ dead.uid # 0 /\ dead.type = "Move" /\ exc = NoExc
  /\ dead.offset # <<0, 0>> /\ offset_rounded(dead) = <<0, 0>>
  /\ WasCalled("merge", TopLayer.uid)

\* the orders in which a dictionary may yield the keys S
Orders(S) ==
  {f \in [1 .. Cardinality(S) -> S] : \A i, j \in DOMAIN f : f[i] = f[j] => i = j}

RECURSIVE stationary_in_order(_, _, _)
\* the loop of MoveLayer.finish over the stationary particles, taken in order
stationary_in_order(s, h, order) ==
  IF order = <<>> THEN s
  ELSE stationary_in_order(finish_stationary(s, h, {Head(order)}), h, Tail(order))

RECURSIVE moving_in_order(_, _, _, _)
\* the loop of MoveLayer.finish over the moving particles, taken in order
moving_in_order(s, h, order, off) ==
  IF order = <<>> THEN s
  ELSE moving_in_order(finish_moving(s, h, {Head(order)}, off), h, Tail(order), off)

\* a coordinate translated by the snapped offset of the layer l
TranslatedBy(l, gc) ==
  <<gc[1] + (offset_rounded(l)[1] \div Diameter),
    gc[2] + (offset_rounded(l)[2] \div Diameter)>>

\* C32: when a duplicating move finishes and a moved particle lands on a
\* coordinate that is also a donor coordinate, that coordinate ends up
\* holding the moved particle's tags, in whatever order the moving and the
\* stationary particles are iterated.
MovedWinsOnDonor ==
  /\ (MoveFinished /\ dead.duplicating) =>
       \A g \in DOMAIN dead.snap :
         Translated(g) \in DOMAIN dead.snap
           => TagsAt(dead.model, Translated(g)) = dead.snap[g]
  /\ \A h \in Handles :
       LET l == layers[h] IN
       (l.type = "Move" /\ running(l) /\ l.duplicating) =>
         \A so \in Orders(l.drawn), mo \in Orders(l.drawn) :
           LET s == moving_in_order(stationary_in_order(St, h, so), h, mo,
                                    offset_rounded(l))
           IN \A g \in DOMAIN l.snap :
                TranslatedBy(l, g) \in DOMAIN l.snap
                  => /\ has_particle(s, l.model, TranslatedBy(l, g))
                     /\ Tags(s.heap[MSlot(l.model, TranslatedBy(l, g))]) = l.snap[g]

MovedWinsOnDonor_Witness ==
  /\ MoveFinished /\ dead.duplicating /\ exc = NoExc
  /\ offset_rounded(dead) # <<0, 0>>
  /\ \E g \in DOMAIN dead.snap :
       /\ Translated(g) \in DOMAIN dead.snap
       /\ dead.snap[Translated(g)] # dead.snap[g]

\* C33: merge never fails on a reachable state: whenever merge_top_layer
\* runs, every start coordinate of the popped child is contained in the new
\* top layer's points, so removing the child's start coordinates from the
\* parent cannot raise.
MergeNeverFails ==
  [][\A h \in Handles \ {1} :
       CalledNext("finish", layers[h].uid) =>
         /\ start_coordinates(layers[h]) \subseteq layers[h - 1].points
         /\ exc' = NoExc]_vars

\* C34: the layer stack never becomes empty: the background layer stays at
\* the bottom of the stack, and merge_top_layer and cancel_top_layer are
\* executed only when the stack holds at least two layers.
StackNeverEmpty ==
  [][/\ Len(layers') >= 1
     /\ layers'[1].uid = 1 /\ layers'[1].type \in {"EditBackground", "View"}
     /\ \A h \in Handles :
          (CalledNext("finish", layers[h].uid) \/ CalledNext("cancel", layers[h].uid))
            => (h = Len(layers) /\ Len(layers) >= 2 /\ Len(layers') = Len(layers) - 1)
     /\ Len(layers') < Len(layers) =>
          (CalledNext("finish", dead'.uid) \/ CalledNext("cancel", dead'.uid))]_vars

StackNeverEmpty_Witness ==
  /\ Len(layers) = 2 /\ dead.uid = 3 /\ exc = NoExc
  /\ WasCalled("cancel", 3) /\ layers[2].runBound

\* C35: RotateLayer.start() completes without error for every coordinate set
\* that get_operation_particles can hand it, the empty set included; the
\* rotate layer is then running on top of the stack, with an empty set of
\* points when it was given none.
RotateStartCompletes ==
  RotateStarted =>
    /\ exc = NoExc
    /\ running(TopLayer)
    /\ TopLayer.initPoints = {} => TopLayer.points = {}

----------------------------------------------------------------------------
(* Coordinates of the particle objects *)

\* the slots of the DrawnParticles of the layers of the stack
DrawnSlots ==
  {sl \in DOMAIN heap : /\ sl[2] \in {"d", "s"}
                        /\ \E h \in {0} \cup Handles : sl[1] = L(Cur, h).uid}

\* DrawnParticle.gridcoord of the DrawnParticle of slot sl
GridcoordOf(sl) ==
  LET l == L(Cur, CHOOSE h \in {0} \cup Handles : L(Cur, h).uid = sl[1])
  IN IF sl[2] = "d" THEN l.dgc[sl[3]] ELSE sl[3]

----------------------------------------------------------------------------
(* The clipboard *)

\* the clipboard payload by value: the particles of the copied model and the
\* copied coordinates
ClipboardValue == [model |-> ModelVal(Cur, ClipModel), coordinates |-> clip]

\* the layer on top was started by handle_paste in this handler
PasteStarted ==
  /\ Len(layers) >= 2
  /\ TopLayer.type = "Paste"
  /\ WasCalled("start", TopLayer.uid)

\* C37: pasting never changes the clipboard: no step other than a copy
\* changes the copied model or the copied coordinates by value, whatever is
\* edited, merged or cancelled, and every new PasteLayer starts from a model
\* and a coordinate set equal by value to the clipboard
ClipboardKept ==
  [][/\ Copy \/ ClipboardValue' = ClipboardValue
     /\ PasteStarted' =>
          /\ ModelVal(Cur, TopLayer.model)' = ClipboardValue.model
          /\ TopLayer.initPoints' = ClipboardValue.coordinates]_vars

----------------------------------------------------------------------------
(* The operations of src/advanced.py on the canvas Model of src/model.py *)

\* Operation.operate_rotate_ccw(par, x0, y0)
operate_rotate_ccw(gc, x0, y0) == <<gc[2] - y0, -(gc[1] - x0)>>

\* Operation.paste, the loop over cache['selected']: a deep copy of every
\* selected particle, transformed about the base point and shifted to the
\* reference point
selected_after_op(c, selected, bp, rp) ==
  [i \in DOMAIN selected |->
     LET par == c.oval_id_to_particle[selected[i]]
         b == c.oval_id_to_particle[bp].grid_coord
         r == c.oval_id_to_particle[rp].grid_coord
         g == operate_rotate_ccw(par.grid_coord, b[1], b[2])
     IN [grid_coord |-> <<r[1] + g[1], r[2] + g[2]>>, ps |-> par.ps, bs |-> par.bs]]

\* Operation.paste(ref_point) of a Rotate_ccw (self._copy is False): selected
\* and not_selected are the cache entries in the order they are iterated,
\* bp and rp the particles popped from cache['base_point'] and ref_point
operation_paste(c, selected, not_selected, bp, rp, first) ==
  canvas_set_particles_paste(
    c,
    selected_after_op(c, selected, bp, rp)
      \o [i \in DOMAIN not_selected |-> [ref |-> not_selected[i]]],
    first)

\* <Command-v> with a Rotate_ccw whose cache holds the selection, the other
\* particles of the model and a base point; the window has its size
RotatePaste ==
  /\ sized
  /\ selected_particles # {}
  /\ lastop.name # "paste"
  /\ \E bp \in DOMAIN oval_id_to_particle, rp \in DOMAIN oval_id_to_particle,
        first \in model_particles \cup {0},
        selected \in Orders(selected_particles),
        not_selected \in Orders(model_particles \ selected_particles) :
       /\ first = 0 <=> model_particles = {}
       /\ lastop' = [name |-> "paste", bp |-> bp, rp |-> rp]
       /\ CvCommit(operation_paste(Cv, selected, not_selected, bp, rp, first))

\* the events that build the model and the selection the operation is applied
\* to; a behaviour ends with the operation
OperationResize == lastop.name # "paste" /\ HandleResize
OperationLeftClick == lastop.name # "paste" /\ HandleLeftClick
OperationRightClick == lastop.name # "paste" /\ HandleRightClick
OperationSetParticles == lastop.name # "paste" /\ SetParticles

NextOperation ==
  \/ OperationResize \/ OperationLeftClick \/ OperationRightClick
  \/ OperationSetParticles \/ RotatePaste

SpecOperation == InitCanvasModel /\ [][NextOperation]_vars

\* the coordinates of the particles ps of the canvas
CoordsOf(ovals, ps) == {ovals[p].grid_coord : p \in ps}

\* the tags of the particle of ps at a coordinate
TagsIn(ovals, ps, gc) == Tags(ovals[CHOOSE p \in ps : ovals[p].grid_coord = gc])

\* C38: Operation.paste of a Rotate_ccw with base point (x0,y0) and reference
\* point (rx,ry) completes and leaves a particle with the tags of every
\* selected particle (x,y) at (rx + (y - y0), ry - (x - x0)), every unselected
\* particle with its tags at its coordinate, and no other particle (where an
\* image falls on an unselected particle, either of the two is accepted)
RotatePasteExact ==
  [][(lastop'.name = "paste" /\ selected_particles \subseteq model_particles) =>
       LET b == oval_id_to_particle[lastop'.bp].grid_coord
           r == oval_id_to_particle[lastop'.rp].grid_coord
           Image(gc) == <<r[1] + (gc[2] - b[2]), r[2] - (gc[1] - b[1])>>
           sel == CoordsOf(oval_id_to_particle, selected_particles)
           uns == CoordsOf(oval_id_to_particle, model_particles \ selected_particles)
           Before(gc) == TagsIn(oval_id_to_particle, model_particles, gc)
           After(gc) == TagsIn(oval_id_to_particle', model_particles', gc)
       IN /\ raised' = NoExc
          /\ CoordsOf(oval_id_to_particle', model_particles')
               = {Image(gc) : gc \in sel} \cup uns
          /\ \A gc \in uns :
               \/ After(gc) = Before(gc)
               \/ \E g \in sel : Image(g) = gc /\ After(gc) = Before(g)
          /\ \A g \in sel :
               \/ After(Image(g)) = Before(g)
               \/ Image(g) \in uns /\ After(Image(g)) = Before(Image(g))]_vars

----------------------------------------------------------------------------
(* The event data registry of src/utils.py: the payload of a virtual event  *)
(* travels through the dictionary event_data under a random integer key     *)
(* that the event carries in its state field.                               *)

\* random.randint(0, 10**6) draws the key from 0 .. MaxKey
MaxKey == 2
\* the number of notifications of a behaviour
MaxEvents == 3

EventKeys == 0 .. MaxKey
\* the payloads handed to event_data_register, told apart by a serial number
EventPayloads == 1 .. 2

\* event_data_register(data): event_data[key] = data, key the integer drawn
event_data_register(registry, data, key) ==
  [k \in DOMAIN registry \cup {key} |-> IF k = key THEN data ELSE registry[k]]

\* event_data_retrieve(key)
event_data_retrieve(registry, key) ==
  IF key \in DOMAIN registry THEN registry[key] ELSE "None"

EventsLeft == Len(event_queue) + Len(event_got) < MaxEvents

EventFrame ==
  UNCHANGED <<heap, share, layers, dead, evq, idle, exc, calls, nextUid, clip,
              nInputs, sstart, soffset, mvars, gvars, ivars>>

\* what a handler found: the payload it retrieved and the payload that was
\* registered for its event
Got(name, registry, key, data) ==
  [name |-> name, data |-> event_data_retrieve(registry, key), registered |-> data]

\* EditBasicLayer.apply_brush / merge: the payload is registered and the
\* <<Model>> event is put at the tail of the event queue
GenerateModelEvent ==
  /\ EventsLeft
  /\ \E data \in EventPayloads, key \in EventKeys :
       /\ event_data' = event_data_register(event_data, data, key)
       /\ event_queue' = Append(event_queue, [state |-> key, registered |-> data])
  /\ UNCHANGED event_got
  /\ EventFrame

\* ViewLayer.handle_model_event for the first waiting <<Model>> event
HandleModelEvent ==
  /\ event_queue # <<>>
  /\ event_got' = Append(event_got,
                         Got("Model", event_data, Head(event_queue).state,
                             Head(event_queue).registered))
  /\ event_queue' = Tail(event_queue)
  /\ UNCHANGED event_data
  /\ EventFrame

\* Application: the <<Brush>> event is generated and, having no when option,
\* handled at once by handle_brush_event
GenerateBrushEvent ==
  /\ EventsLeft
  /\ \E data \in EventPayloads, key \in EventKeys :
       /\ event_data' = event_data_register(event_data, data, key)
       /\ event_got' = Append(event_got, Got("Brush", event_data', key, data))
  /\ UNCHANGED event_queue
  /\ EventFrame

\* EditBasicLayer.handle_copy: the <<Clipboard>> event is generated and
\* handled at once by handle_clipboard_event
GenerateClipboardEvent ==
  /\ EventsLeft
  /\ \E data \in EventPayloads, key \in EventKeys :
       /\ event_data' = event_data_register(event_data, data, key)
       /\ event_got' = Append(event_got, Got("Clipboard", event_data', key, data))
  /\ UNCHANGED event_queue
  /\ EventFrame

InitEvents ==
  /\ InitLayers(Init0("View")) /\ InitCanvas(Tag(NoTag, NoTag))
  /\ NoGridCall /\ NoImport /\ NoEvents

NextEvents ==
  \/ GenerateModelEvent \/ HandleModelEvent
  \/ GenerateBrushEvent \/ GenerateClipboardEvent

SpecEvents == InitEvents /\ [][NextEvents]_vars

\* C39: every handler of a model-changed, brush or clipboard notification
\* retrieves exactly the payload that was registered when its notification
\* was generated, however many notifications were registered before it ran
PayloadIntegrity ==
  \A i \in DOMAIN event_got : event_got[i].data = event_got[i].registered

=============================================================================
